---- MODULE Spec2Model ----
(***************************************************************************)
(* A model of the opportunity engine of Hackethon-wealthy:                 *)
(*   - src/agent.py        analyze_opportunity (the narrative synthesizer) *)
(*   - src/app/services.py the SIP, insurance and portfolio opportunity    *)
(*                         rules and their combined views                  *)
(* Real-valued quantities (Python floats) are modelled as exact rationals  *)
(* [n, d] in lowest terms; text values are sequences of words.             *)
(***************************************************************************)
EXTENDS Integers, Sequences, FiniteSets, TLC

VARIABLES
    a_pc,         \* analyze_opportunity: position of the call in progress
    a_in,         \* its arguments (client_name, opportunity_type, raw_data)
    a_resp,       \* the response the generative service gave, if any
    a_ret,        \* the value the call returned
    a_exc,        \* the exception raised inside the try block, if any
    sip_records,  \* the sip_records table (rows in primary-key order)
    now,          \* the wall clock read by datetime.now(), in days
    s_call,       \* the detector invocation last made, with its arguments
    s_out,        \* what that invocation produced
    insurance_records,   \* the insurance_records table
    i_call,              \* the insurance rule invocation last made
    i_out,               \* what that invocation produced
    portfolio_holdings,  \* the portfolio_holdings table
    p_call,              \* the portfolio rule invocation last made
    p_out,               \* what that invocation produced
    users,        \* the users table (the client profiles)
    r_pc,         \* per request handler: where it stands in its invocation
    r_call,       \* per request handler: the rule it invokes and its arguments
    r_acc,        \* per request handler: the local list it has built so far
    r_out         \* per request handler: what its invocation produced

agent_vars == <<a_pc, a_in, a_resp, a_ret, a_exc>>
sip_vars == <<sip_records, now, s_call, s_out>>
ins_vars == <<insurance_records, i_call, i_out>>
pf_vars == <<portfolio_holdings, p_call, p_out>>
rest_vars == <<users, r_pc, r_call, r_acc, r_out>>
vars == <<a_pc, a_in, a_resp, a_ret, a_exc, sip_records, now, s_call, s_out,
          insurance_records, i_call, i_out, portfolio_holdings, p_call, p_out,
          users, r_pc, r_call, r_acc, r_out>>

(***************************************************************************)
(* JSON values.  A scalar is [kind, i, s]: kind "int" carries i, kind      *)
(* "float" carries a non-integral number in tenths in i, kind "str"        *)
(* carries its words in s.  A document is [kind, i, s, obj] where obj maps *)
(* the field names of an object to scalars.                                *)
(***************************************************************************)
Sc(kind, i, s) == [kind |-> kind, i |-> i, s |-> s]
JInt(n) == Sc("int", n, <<>>)
JFloat(tenths) == Sc("float", tenths, <<>>)
JStr(words) == Sc("str", 0, words)
NoFields == [f \in {} |-> JInt(0)]
JObject(fields) == [kind |-> "object", i |-> 0, s |-> <<>>, obj |-> fields]
JArray == [kind |-> "array", i |-> 0, s |-> <<>>, obj |-> NoFields]
JNull == [kind |-> "null", i |-> 0, s |-> <<>>, obj |-> NoFields]
JNumber(n) == [kind |-> "int", i |-> n, s |-> <<>>, obj |-> NoFields]
JString(words) == [kind |-> "str", i |-> 0, s |-> words, obj |-> NoFields]

\* The object the prompt's OUTPUT SCHEMA asks for.
SchemaDoc(score, type, headline, talking, action) ==
    JObject([client_id |-> JStr(<<"c1">>),
             urgency_score |-> score,
             opportunity_type |-> JStr(<<type>>),
             headline |-> JStr(headline),
             talking_point |-> JStr(talking),
             suggested_action |-> JStr(action)])

GoodHeadline == <<"Compounding", "Break", "Alert">>
GoodTalking == <<"Review", "the", "contribution", "discontinuity", "together">>
GoodAction == <<"Restore", "Regularity">>
GoodDoc == SchemaDoc(JInt(92), "SIP_RECOVERY", GoodHeadline, GoodTalking, GoodAction)

\* What the service's text may denote: the service is free to answer anything.
ServiceDocs ==
    { GoodDoc,
      SchemaDoc(JInt(0), "PROTECTION_ENHANCEMENT", GoodHeadline, GoodTalking, GoodAction),
      SchemaDoc(JInt(100), "PORTFOLIO_OPTIMIZATION", GoodHeadline, GoodTalking, GoodAction),
      SchemaDoc(JInt(150), "SIP_RECOVERY", GoodHeadline, GoodTalking, GoodAction),
      SchemaDoc(JInt(-5), "SIP_RECOVERY", GoodHeadline, GoodTalking, GoodAction),
      SchemaDoc(JStr(<<"high">>), "SIP_RECOVERY", GoodHeadline, GoodTalking, GoodAction),
      SchemaDoc(JFloat(875), "SIP_RECOVERY", GoodHeadline, GoodTalking, GoodAction),
      SchemaDoc(JInt(80), "UPSELL", GoodHeadline, GoodTalking, GoodAction),
      SchemaDoc(JInt(80), "SIP_RECOVERY", <<"Guaranteed", "Profit", "Plan">>, GoodTalking, GoodAction),
      SchemaDoc(JInt(80), "SIP_RECOVERY", GoodHeadline, <<"You", "should", "sell", "now">>, GoodAction),
      SchemaDoc(JInt(80), "SIP_RECOVERY", GoodHeadline, GoodTalking, <<"Buy", "More">>),
      JObject([urgency_score |-> JInt(60), headline |-> JStr(GoodHeadline)]),
      JObject([client_id |-> JStr(<<"c1">>), urgency_score |-> JInt(60),
               opportunity_type |-> JStr(<<"SIP_RECOVERY">>), headline |-> JStr(GoodHeadline),
               talking_point |-> JStr(GoodTalking), suggested_action |-> JStr(GoodAction),
               confidence |-> JFloat(5)]),
      JArray, JNull, JNumber(42), JString(<<"Review", "Allocation">>) }

\* A response of generate_content: text that is well-formed JSON for a document,
\* text that is not JSON (prose, a truncated document, nothing), or a response
\* with no text part (a blocked candidate), whose .text accessor raises.
Response(syntax, doc) == [syntax |-> syntax, doc |-> doc]
ServiceResponses ==
    { Response("json", d) : d \in ServiceDocs }
      \cup { Response("prose", JNull), Response("truncated", GoodDoc),
             Response("empty", JNull), Response("blocked", JNull) }
NoResponse == Response("none", JNull)

\* Exceptions: a class and the words of str(e).
Exc(cls, msg) == [cls |-> cls, msg |-> msg]
NoExc == Exc("none", <<>>)
\* The classes below all derive from Exception.
ExceptionSubclasses ==
    {"Exception", "TypeError", "ValueError", "JSONDecodeError",
     "GoogleAPIError", "DeadlineExceeded", "ConnectionError"}
ConstructErrors == { Exc("TypeError", <<"unexpected", "generation_config">>) }
GenerateErrors ==
    { Exc("GoogleAPIError", <<"403", "permission", "denied">>),
      Exc("DeadlineExceeded", <<"504", "deadline", "exceeded">>),
      Exc("ConnectionError", <<"connection", "reset">>) }

\* json.dumps(raw_data): raises TypeError on a value that is not JSON serializable.
RawData == {"dict", "dict_with_datetime"}
json_dumps(raw_data) ==
    IF raw_data = "dict" THEN NoExc
    ELSE Exc("TypeError", <<"Object", "of", "type", "datetime", "is", "not", "JSON", "serializable">>)

\* response.text: raises ValueError when the response holds no text part.
response_text(resp) ==
    IF resp.syntax = "blocked"
    THEN Exc("ValueError", <<"response.text", "requires", "a", "valid", "Part">>)
    ELSE NoExc

\* json.loads(text): the document of well-formed text, JSONDecodeError otherwise.
json_loads_error(resp) ==
    IF resp.syntax = "json" THEN NoExc
    ELSE Exc("JSONDecodeError", <<"Expecting", "value">>)
json_loads(resp) == resp.doc

\* except Exception as e: which classes the handler catches.
CatchesOnlyDecodeError(cls) == cls = "JSONDecodeError"
Catches(cls) == cls \in ExceptionSubclasses

\* The safe default error object.
Fallback(e) ==
    JObject([urgency_score |-> JInt(0),
             headline |-> JStr(<<"Manual", "Review", "Required">>),
             talking_point |-> JStr(<<"Data", "analysis", "incomplete.", "Please", "review",
                                      "client", "file", "manually.">>),
             suggested_action |-> JStr(<<"Open", "Profile">>),
             error_details |-> JStr(e.msg)])

ClientNames == {"Asha", "Ravi"}
OpportunityTypes == {"Failed SIP Transactions", "No Insurance Coverage", "Underperforming Fund"}
NoInput == [client_name |-> "", opportunity_type |-> "", raw_data |-> "dict"]

\* No call is in progress, and no detector runs (see NoCall, NoOut below).
InitAgent ==
    /\ a_pc = "idle"
    /\ a_in = NoInput
    /\ a_resp = NoResponse
    /\ a_ret = JNull
    /\ a_exc = NoExc
    /\ sip_records = <<>>
    /\ now = 430
    /\ s_call = [name |-> "none", clock |-> 0, agent_id |-> "<None>",
                 min_months |-> 0, min_failed_amount |-> 0, min_invested_amount |-> 0,
                 min_inactive_days |-> 0, limit |-> 0]
    /\ s_out = [status |-> "none", opps |-> <<>>]
    /\ insurance_records = <<>>
    /\ i_call = [name |-> "none", agent_id |-> "<None>", min_premium_gap |-> 0,
                 min_opportunity_score |-> 0, min_mf_value |-> 0, limit |-> 0]
    /\ i_out = [status |-> "none", opps |-> <<>>]
    /\ portfolio_holdings = <<>>
    /\ p_call = [name |-> "none", user_id |-> "<None>", min_current_value |-> 0,
                 max_rating |-> 0, min_concentration |-> 0, limit |-> 0]
    /\ p_out = [status |-> "none", opps |-> <<>>]
    /\ users = <<>>
    /\ r_pc = [h \in {"h1", "h2"} |-> "idle"]
    /\ r_call = [h \in {"h1", "h2"} |->
                    [name |-> "none", clock |-> 0, agent_id |-> "<None>", limit |-> 0]]
    /\ r_acc = [h \in {"h1", "h2"} |-> <<>>]
    /\ r_out = [h \in {"h1", "h2"} |-> [status |-> "none", opps |-> <<>>]]

\* The except clause: the fallback is returned for a caught class, and the
\* exception leaves the function otherwise.
Except(e) ==
    /\ a_exc' = e
    /\ IF Catches(e.cls)
       THEN a_pc' = "returned" /\ a_ret' = Fallback(e)
       ELSE a_pc' = "raised" /\ a_ret' = a_ret

\* analyze_opportunity(client_name, opportunity_type, raw_data) is entered.
analyze_opportunity(client_name, opportunity_type, raw_data) ==
    /\ a_pc = "idle"
    /\ a_pc' = "construct"
    /\ a_in' = [client_name |-> client_name, opportunity_type |-> opportunity_type,
                raw_data |-> raw_data]
    /\ a_resp' = NoResponse
    /\ a_ret' = JNull
    /\ a_exc' = NoExc
    /\ UNCHANGED <<sip_vars, ins_vars, pf_vars, rest_vars>>

\* genai.GenerativeModel(...)
ConstructModel ==
    /\ a_pc = "construct"
    /\ \/ a_pc' = "prompt" /\ UNCHANGED <<a_ret, a_exc>>
       \/ \E e \in ConstructErrors : Except(e)
    /\ UNCHANGED <<a_in, a_resp>>
    /\ UNCHANGED <<sip_vars, ins_vars, pf_vars, rest_vars>>

\* final_prompt = f"... {json.dumps(raw_data)} ..."
BuildPrompt ==
    /\ a_pc = "prompt"
    /\ IF json_dumps(a_in.raw_data) = NoExc
       THEN a_pc' = "generate" /\ UNCHANGED <<a_ret, a_exc>>
       ELSE Except(json_dumps(a_in.raw_data))
    /\ UNCHANGED <<a_in, a_resp>>
    /\ UNCHANGED <<sip_vars, ins_vars, pf_vars, rest_vars>>

\* response = model.generate_content(final_prompt)
GenerateContent ==
    /\ a_pc = "generate"
    /\ \/ \E r \in ServiceResponses :
            a_resp' = r /\ a_pc' = "parse" /\ UNCHANGED <<a_ret, a_exc>>
       \/ \E e \in GenerateErrors : Except(e) /\ UNCHANGED a_resp
    /\ UNCHANGED a_in
    /\ UNCHANGED <<sip_vars, ins_vars, pf_vars, rest_vars>>

\* return json.loads(response.text)
ParseResponse ==
    /\ a_pc = "parse"
    /\ IF response_text(a_resp) # NoExc THEN Except(response_text(a_resp))
       ELSE IF json_loads_error(a_resp) # NoExc THEN Except(json_loads_error(a_resp))
       ELSE a_pc' = "returned" /\ a_ret' = json_loads(a_resp) /\ a_exc' = NoExc
    /\ UNCHANGED <<a_in, a_resp>>
    /\ UNCHANGED <<sip_vars, ins_vars, pf_vars, rest_vars>>

\* The caller has the result and the call's locals are gone; the next call may
\* start.
AgentReturn ==
    /\ a_pc = "returned"
    /\ a_pc' = "idle"
    /\ a_in' = NoInput
    /\ a_resp' = NoResponse
    /\ a_ret' = JNull
    /\ a_exc' = NoExc
    /\ UNCHANGED <<sip_vars, ins_vars, pf_vars, rest_vars>>

NextAgent ==
    \/ \E cn \in ClientNames, ot \in OpportunityTypes, rd \in RawData :
           analyze_opportunity(cn, ot, rd)
    \/ ConstructModel
    \/ BuildPrompt
    \/ GenerateContent
    \/ ParseResponse
    \/ AgentReturn


(***************************************************************************)
(* Numbers.  A Python float is modelled as the exact rational it stands    *)
(* for, [n, d] with d > 0, in lowest terms so that equal numbers are equal *)
(* records.                                                                *)
(***************************************************************************)
RECURSIVE GCD(_, _)
GCD(a, b) == IF b = 0 THEN a ELSE GCD(b, a % b)
Abs(x) == IF x < 0 THEN -x ELSE x
Rat(n, d) == LET g == GCD(Abs(n), d) IN [n |-> n \div g, d |-> d \div g]
RInt(k) == [n |-> k, d |-> 1]
RLe(a, b) == a.n * b.d <= b.n * a.d
RLt(a, b) == a.n * b.d < b.n * a.d
RMin(a, b) == IF RLe(a, b) THEN a ELSE b
RAdd(a, b) == Rat(a.n * b.d + b.n * a.d, a.d * b.d)
Min(a, b) == IF a <= b THEN a ELSE b

\* Python's None, for a nullable string column or an optional argument.
None == "<None>"
\* An optional integer: None, or an int.
NoneInt == [k |-> "none", v |-> 0]
SomeInt(v) == [k |-> "int", v |-> v]
\* The call raised instead of returning.
Raised == [k |-> "raise", v |-> 0]
\* Python truthiness of an optional integer: None and 0 are falsy.
Truthy(o) == o.k = "int" /\ o.v # 0

(***************************************************************************)
(* Date strings.  A stored date is NULL, the empty string, text dateutil   *)
(* cannot parse, a date without a UTC offset, or a timestamp with one; a   *)
(* parseable one denotes a day number.                                     *)
(***************************************************************************)
DateStr(kind, day) == [kind |-> kind, day |-> day]
NullDate == DateStr("null", 0)
EmptyDate == DateStr("empty", 0)
GarbageDate == DateStr("garbage", 0)
Date(day) == DateStr("naive", day)
TzDate(day) == DateStr("aware", day)

\* parse_date_safe: None for a missing or unparseable string, else the datetime.
parse_date_safe(date_string) ==
    IF date_string.kind \in {"null", "empty"} THEN DateStr("none", 0)
    ELSE IF date_string.kind = "garbage" THEN DateStr("none", 0)
    ELSE date_string

\* get_days_since_date: (datetime.now() - parsed_date).days; subtracting an
\* offset-aware datetime from the naive datetime.now() raises TypeError.
get_days_since_date(date_string, clock) ==
    LET parsed_date == parse_date_safe(date_string) IN
    IF parsed_date.kind = "none" THEN NoneInt
    ELSE IF parsed_date.kind = "aware" THEN Raised
    ELSE SomeInt(clock - parsed_date.day)

\* get_months_since_date: days // 30.
MonthsDiv31(date_string, clock) ==
    LET days == get_days_since_date(date_string, clock) IN
    IF days.k # "int" THEN days ELSE SomeInt(days.v \div 31)
get_months_since_date(date_string, clock) ==
    LET days == get_days_since_date(date_string, clock) IN
    IF days.k # "int" THEN days ELSE SomeInt(days.v \div 30)


(***************************************************************************)
(* The sip_records table.  A row carries the columns the rules read; nulls *)
(* names the numeric columns of the row that hold NULL (the value given    *)
(* for such a column is a placeholder that is never read).                 *)
(***************************************************************************)
BasePlan ==
    [user_id |-> "u1", agent_id |-> "a1", nulls |-> {},
     deleted |-> "false", is_active |-> "true", current_sip_status |-> "Success",
     latest_success_order_date |-> Date(30), start_date |-> Date(0),
     increment_percentage |-> 10, increment_period |-> "6M",
     amount |-> 10000, success_amount |-> 150000, failed_amount |-> 6000]

\* Rows that differ from BasePlan in their dates and increment period.
DatedPlans ==
    { [BasePlan EXCEPT !.latest_success_order_date = d] :
        d \in {NullDate, GarbageDate, TzDate(30), Date(30), Date(420), Date(430),
               Date(500)} }
      \cup { [BasePlan EXCEPT !.increment_period = p] : p \in {"1Y", None} }
      \cup { [BasePlan EXCEPT !.start_date = d] : d \in {NullDate, Date(230), Date(340)} }
      \cup { [BasePlan EXCEPT !.start_date = Date(230), !.increment_period = "1Y"] }
\* Rows that differ in one status column, or in their advisor.
FlaggedPlans ==
    { [BasePlan EXCEPT !.deleted = "true"],
      [BasePlan EXCEPT !.is_active = "false"],
      [BasePlan EXCEPT !.current_sip_status = "Failed"],
      [BasePlan EXCEPT !.increment_percentage = 0],
      [BasePlan EXCEPT !.agent_id = "a2", !.user_id = "u2"] }
\* Rows that differ in their amounts.
AmountPlans ==
    { [BasePlan EXCEPT !.amount = 2000, !.success_amount = 4000],
      [BasePlan EXCEPT !.success_amount = 0, !.failed_amount = 0],
      [BasePlan EXCEPT !.amount = 2000, !.success_amount = 200000, !.failed_amount = 9000],
      [BasePlan EXCEPT !.success_amount = 48000, !.failed_amount = 12000] }
\* Rows with a NULL in a numeric column that no query filters on.
NullPlans ==
    { [BasePlan EXCEPT !.nulls = {"amount"}, !.amount = 0],
      [BasePlan EXCEPT !.nulls = {"success_amount"}, !.success_amount = 0] }
Plans == DatedPlans \cup FlaggedPlans \cup AmountPlans \cup NullPlans

\* The rows that accompany a row of any kind in a table.
CompanionPlans ==
    { BasePlan,
      [BasePlan EXCEPT !.agent_id = "a2", !.user_id = "u2"],
      [BasePlan EXCEPT !.amount = 2000, !.success_amount = 200000, !.failed_amount = 9000] }

\* The tables the checks start from: up to MaxRecords rows, of which at most one
\* (at any position) is not a companion row.
MaxRecords == 2
Tables ==
    UNION { { t \in [1..n -> Plans] :
                Cardinality({i \in 1..n : t[i] \notin CompanionPlans}) <= 1 }
            : n \in 0..MaxRecords }

\* A table with more high-value plans than a rule fetches for a limit of 1: three
\* plans with a success ten days before the first clock value, and a fourth,
\* smaller one whose last success is long past.
RecentPlan ==
    [BasePlan EXCEPT !.latest_success_order_date = Date(420), !.success_amount = 200000]
CrowdedTables == { <<RecentPlan, RecentPlan, RecentPlan, BasePlan>> }

\* The values datetime.now() takes, in days.
ClockDays == {430, 1860}

\* The arguments the rules are invoked with.
MaxLimit == 2
Limits == 0..MaxLimit
AgentFilters == {None, "a1"}
MinMonths == {-5, 0, 12}
MinFailedAmounts == {0, 5000}
MinInvestedAmounts == {100000}
MinInactiveDays == {-100, 0, 60}
\* The limits the combined view is invoked with: multiples of 3, and some that
\* are not.
CombinedLimits == { 3 * l : l \in 0..MaxLimit } \cup {1, 2, 4}

(***************************************************************************)
(* Helpers for queries and lists.                                          *)
(***************************************************************************)
\* if agent_id: query = query.filter(SIPRecord.agent_id == agent_id)
AgentMatches(r, agent_id) == agent_id \in {None, ""} \/ r.agent_id = agent_id

\* The indices of the rows a filter keeps, in table order.
\* keep[i] tells whether the filter keeps row i.
RowsWhere(keep) == SelectSeq([i \in 1..Len(keep) |-> i], LAMBDA i : keep[i])

\* order_by(desc(column)): every order of the rows that is non-increasing in
\* the column; the database breaks ties as it likes.  column[i] is the value
\* of the column in row i.
OrderByDesc(rows, column) ==
    { p \in [1..Len(rows) -> {rows[k] : k \in 1..Len(rows)}] :
        /\ \A a, b \in 1..Len(rows) : a < b => p[a] # p[b] /\ column[p[a]] >= column[p[b]] }

\* list[:n] for n >= 0.
TakeOneMore(list, n) == SubSeq(list, 1, Min(n + 1, Len(list)))
Take(list, n) == SubSeq(list, 1, Min(n, Len(list)))

\* list.sort(key=..., reverse=True): a stable sort, so equal keys keep their
\* order; keys[i] is the key of list[i].
SortDesc(list, keys) ==
    LET n == Len(list)
        key == SubSeq(keys, 1, n)
        Rank(i) == 1 + Cardinality({j \in 1..n :
                         RLt(key[i], key[j]) \/ (key[j] = key[i] /\ j < i)})
        rank == SubSeq([i \in 1..n |-> Rank(i)], 1, n)
    IN [p \in 1..n |-> list[CHOOSE i \in 1..n : rank[i] = p]]

\* The column of the row holds NULL.
IsNull(r, column) == column \in r.nulls
\* The fields of an opportunity that are None because the column they copy is NULL.
NoneFields(r) ==
    { "current_sip_amount" : c \in r.nulls \cap {"amount"} }
        \cup { "total_invested" : c \in r.nulls \cap {"success_amount"} }

\* record.agent_id or "0"
OrZero(agent_id) == IF agent_id \in {None, ""} THEN "0" ELSE agent_id

\* The parts of opportunity_description that are computed.
Descr(months, expected, period, rate, status, days) ==
    [months |-> months, expected_increments |-> expected, increment_period |-> period,
     failure_rate |-> rate, status |-> status, days |-> days]

\* What a rule invocation produced: a list, or an exception.
Out(status, opps) == [status |-> status, opps |-> opps]
NoOut == Out("none", <<>>)


(***************************************************************************)
(* get_no_sip_increase_clients                                             *)
(***************************************************************************)
\* The query's filter; a comparison with NULL keeps no row.
NoIncreaseFilter(r, agent_id) ==
    /\ r.is_active = "true"
    /\ r.current_sip_status = "Success"
    /\ r.deleted = "false"
    /\ r.latest_success_order_date.kind # "null"
    /\ r.increment_percentage > 0
    /\ AgentMatches(r, agent_id)

\* if months_since_last and months_since_start and months_since_last >= min_months
NoIncreaseCondition(months_since_last, months_since_start, min_months) ==
    /\ Truthy(months_since_last)
    /\ Truthy(months_since_start)
    /\ months_since_last.v >= min_months

\* expected_increments, from increment_period and months_since_start.
expected_increments(increment_period, months_since_start) ==
    IF increment_period = "6M" /\ months_since_start >= 6 THEN months_since_start \div 6
    ELSE IF increment_period = "1Y" /\ months_since_start >= 12 THEN months_since_start \div 12
    ELSE 0

\* The opportunity built for row i, whose months_since_last is known.
NoIncreaseOpportunity(records, i, clock, months_since_last, expected) ==
    LET record == records[i] IN
    [src |-> i,
     nones |-> NoneFields(record),
     user_id |-> record.user_id,
     agent_id |-> OrZero(record.agent_id),
     opportunity_type |-> "No SIP Increase",
     descr |-> Descr(months_since_last, expected, record.increment_period, RInt(0), "", 0),
     current_sip_amount |-> record.amount,
     potential_increase |-> Rat(record.amount * record.increment_percentage, 100),
     last_activity_date |-> record.latest_success_order_date,
     days_since_activity |-> get_days_since_date(record.latest_success_order_date, clock),
     total_invested |-> record.success_amount,
     failed_amount |-> NoneInt,
     risk_score |-> RMin(RInt(10), Rat(months_since_last, 6))]

\* One pass of the loop body: whether the row raises, and whether it is emitted.
\* record.amount * (...) raises TypeError when amount is None.
NoIncreaseRow(records, i, clock, min_months) ==
    LET record == records[i]
        months_since_last == get_months_since_date(record.latest_success_order_date, clock)
        months_since_start == get_months_since_date(record.start_date, clock)
        expected == expected_increments(record.increment_period, months_since_start.v)
        reached == /\ NoIncreaseCondition(months_since_last, months_since_start, min_months)
                   /\ expected > 0
    IN [raises |-> \/ months_since_last.k = "raise"
                   \/ months_since_start.k = "raise"
                   \/ reached /\ IsNull(record, "amount"),
        emits |-> reached,
        opp |-> NoIncreaseOpportunity(records, i, clock, months_since_last.v, expected)]

get_no_sip_increase_clients(records, clock, agent_id, min_months, limit) ==
    LET rows == RowsWhere([i \in 1..Len(records) |-> NoIncreaseFilter(records[i], agent_id)])
        body == [k \in 1..Len(rows) |-> NoIncreaseRow(records, rows[k], clock, min_months)]
        emitted == SelectSeq(body, LAMBDA b : b.emits)
        opportunities == [k \in 1..Len(emitted) |-> emitted[k].opp]
        keys == [k \in 1..Len(emitted) |-> emitted[k].opp.potential_increase]
    IN IF \E k \in 1..Len(rows) : body[k].raises THEN Out("raised", <<>>)
       ELSE Out("ok", Take(SortDesc(opportunities, keys), limit))

(***************************************************************************)
(* get_failed_sip_clients                                                  *)
(***************************************************************************)
FailedFilter(r, agent_id, min_failed_amount) ==
    /\ r.deleted = "false"
    /\ r.failed_amount >= min_failed_amount
    /\ AgentMatches(r, agent_id)

\* failure_rate = failed / (success + failed) * 100, 0 when nothing was attempted.
FailureRateOfSuccess(success_amount, failed_amount) ==
    LET total_attempted == success_amount + failed_amount IN
    IF total_attempted > 0 THEN Rat(success_amount * 100, total_attempted) ELSE RInt(0)
failure_rate(success_amount, failed_amount) ==
    LET total_attempted == success_amount + failed_amount IN
    IF total_attempted > 0 THEN Rat(failed_amount * 100, total_attempted) ELSE RInt(0)

\* record.success_amount + record.failed_amount raises TypeError when
\* success_amount is None (failed_amount is not: the filter compares it).
FailedRow(records, i, clock) ==
    LET record == records[i]
        rate == failure_rate(record.success_amount, record.failed_amount)
        days == get_days_since_date(record.latest_success_order_date, clock)
    IN [raises |-> days.k = "raise" \/ IsNull(record, "success_amount"),
        emits |-> TRUE,
        opp |-> [src |-> i,
                 nones |-> NoneFields(record),
                 user_id |-> record.user_id,
                 agent_id |-> OrZero(record.agent_id),
                 opportunity_type |-> "Failed SIP Transactions",
                 descr |-> Descr(0, 0, "", rate, record.current_sip_status, 0),
                 current_sip_amount |-> record.amount,
                 potential_increase |-> RInt(record.failed_amount),
                 last_activity_date |-> record.latest_success_order_date,
                 days_since_activity |-> days,
                 total_invested |-> record.success_amount,
                 failed_amount |-> SomeInt(record.failed_amount),
                 risk_score |-> RMin(RInt(10), Rat(rate.n, rate.d * 10))]]

\* The results the call may give: one per order the database may return.
get_failed_sip_clients(records, clock, agent_id, min_failed_amount, limit) ==
    LET rows == RowsWhere([i \in 1..Len(records) |->
                              FailedFilter(records[i], agent_id, min_failed_amount)])
    IN { LET fetched == Take(ordered, limit * 2)
             body == [k \in 1..Len(fetched) |-> FailedRow(records, fetched[k], clock)]
             opportunities == [k \in 1..Len(fetched) |-> body[k].opp]
         IN IF \E k \in 1..Len(fetched) : body[k].raises THEN Out("raised", <<>>)
            ELSE Out("ok", Take(opportunities, limit))
         : ordered \in OrderByDesc(rows, [i \in 1..Len(records) |-> records[i].failed_amount]) }

(***************************************************************************)
(* get_high_value_inactive_clients                                         *)
(***************************************************************************)
InactiveFilter(r, agent_id, min_invested_amount) ==
    /\ r.deleted = "false"
    /\ ~IsNull(r, "success_amount")
    /\ r.success_amount >= min_invested_amount
    /\ r.latest_success_order_date.kind # "null"
    /\ AgentMatches(r, agent_id)

\* if days_since_activity and days_since_activity >= min_inactive_days
InactiveCondition(days_since_activity, min_inactive_days) ==
    Truthy(days_since_activity) /\ days_since_activity.v >= min_inactive_days

\* record.amount * 1.5 raises TypeError when amount is None.
InactiveRow(records, i, clock, min_inactive_days) ==
    LET record == records[i]
        days_since_activity == get_days_since_date(record.latest_success_order_date, clock)
        reached == InactiveCondition(days_since_activity, min_inactive_days)
    IN [raises |-> \/ days_since_activity.k = "raise"
                   \/ reached /\ IsNull(record, "amount"),
        emits |-> reached,
        opp |-> [src |-> i,
                 nones |-> NoneFields(record),
                 user_id |-> record.user_id,
                 agent_id |-> OrZero(record.agent_id),
                 opportunity_type |-> "High-Value Inactive Client",
                 descr |-> Descr(0, 0, "", RInt(0), "", days_since_activity.v),
                 current_sip_amount |-> record.amount,
                 potential_increase |-> Rat(record.amount * 3, 2),
                 last_activity_date |-> record.latest_success_order_date,
                 days_since_activity |-> days_since_activity,
                 total_invested |-> record.success_amount,
                 failed_amount |-> NoneInt,
                 risk_score |-> RMin(RInt(10), Rat(days_since_activity.v, 30))]]

get_high_value_inactive_clients(records, clock, agent_id, min_invested_amount, min_inactive_days, limit) ==
    LET rows == RowsWhere([i \in 1..Len(records) |->
                              InactiveFilter(records[i], agent_id, min_invested_amount)])
    IN { LET fetched == Take(ordered, limit * 3)
             body == [k \in 1..Len(fetched) |->
                        InactiveRow(records, fetched[k], clock, min_inactive_days)]
             emitted == SelectSeq(body, LAMBDA b : b.emits)
             opportunities == [k \in 1..Len(emitted) |-> emitted[k].opp]
             keys == [k \in 1..Len(emitted) |-> RInt(emitted[k].opp.total_invested)]
         IN IF \E k \in 1..Len(fetched) : body[k].raises THEN Out("raised", <<>>)
            ELSE Out("ok", Take(SortDesc(opportunities, keys), limit))
         : ordered \in OrderByDesc(rows, [i \in 1..Len(records) |-> records[i].success_amount]) }

(***************************************************************************)
(* get_all_opportunities                                                   *)
(***************************************************************************)
\* The thresholds the rules default to when the combined view invokes them.
DefaultMinMonths == 12
DefaultMinFailedAmount == 5000
DefaultMinInvestedAmount == 100000
DefaultMinInactiveDays == 60

\* limit // 3, the limit each rule is invoked with.
SliceLimitRoundedUp(limit) == (limit + 2) \div 3
SliceWholeLimit(limit) == limit
SliceLimit(limit) == limit \div 3

\* (x.risk_score or 0) + (x.potential_increase or 0) / 10000
CombinedKey(opp) ==
    RAdd(opp.risk_score, Rat(opp.potential_increase.n, opp.potential_increase.d * 10000))

\* all_opps.sort(key=..., reverse=True); return all_opps[:limit]
CombineSIP(no_increase, failed, inactive, limit) ==
    LET all_opps == no_increase.opps \o failed.opps \o inactive.opps
        keys == [k \in 1..Len(all_opps) |-> CombinedKey(all_opps[k])]
    IN IF {no_increase.status, failed.status, inactive.status} # {"ok"}
       THEN Out("raised", <<>>)
       ELSE Out("ok", Take(SortDesc(all_opps, keys), limit))

\* The results the call may give: one per pair of results of the two rules
\* whose query is ordered.
get_all_opportunities(records, clock, agent_id, limit) ==
    LET each == SliceLimit(limit)
        no_increase == get_no_sip_increase_clients(records, clock, agent_id,
                           DefaultMinMonths, each)
    IN { CombineSIP(no_increase, failed, inactive, limit) :
           failed \in get_failed_sip_clients(records, clock, agent_id,
                          DefaultMinFailedAmount, each),
           inactive \in get_high_value_inactive_clients(records, clock, agent_id,
                          DefaultMinInvestedAmount, DefaultMinInactiveDays, each) }

(***************************************************************************)
(* The SIP detector as a state machine: the rules are invoked against the  *)
(* table at the clock's current value, in any order and any number of      *)
(* times, and the clock moves forward between invocations.                 *)
(***************************************************************************)
Call(name, clock, agent_id, min_months, min_failed_amount, min_invested_amount, min_inactive_days, limit) ==
    [name |-> name, clock |-> clock, agent_id |-> agent_id, min_months |-> min_months,
     min_failed_amount |-> min_failed_amount, min_invested_amount |-> min_invested_amount,
     min_inactive_days |-> min_inactive_days, limit |-> limit]
NoCall == Call("none", 0, None, 0, 0, 0, 0, 0)

\* Any table, no request in progress, and no synthesizer call in progress.
InitSIP ==
    /\ sip_records \in Tables \cup CrowdedTables
    /\ now = 430
    /\ s_call = NoCall
    /\ s_out = NoOut
    /\ a_pc = "idle"
    /\ a_in = NoInput
    /\ a_resp = NoResponse
    /\ a_ret = JNull
    /\ a_exc = NoExc
    /\ insurance_records = <<>>
    /\ i_call = [name |-> "none", agent_id |-> "<None>", min_premium_gap |-> 0,
                 min_opportunity_score |-> 0, min_mf_value |-> 0, limit |-> 0]
    /\ i_out = [status |-> "none", opps |-> <<>>]
    /\ portfolio_holdings = <<>>
    /\ p_call = [name |-> "none", user_id |-> "<None>", min_current_value |-> 0,
                 max_rating |-> 0, min_concentration |-> 0, limit |-> 0]
    /\ p_out = [status |-> "none", opps |-> <<>>]
    /\ users = <<>>
    /\ r_pc = [h \in {"h1", "h2"} |-> "idle"]
    /\ r_call = [h \in {"h1", "h2"} |->
                    [name |-> "none", clock |-> 0, agent_id |-> "<None>", limit |-> 0]]
    /\ r_acc = [h \in {"h1", "h2"} |-> <<>>]
    /\ r_out = [h \in {"h1", "h2"} |-> [status |-> "none", opps |-> <<>>]]

\* A request is served only when none is in progress.
NoSipIncrease(agent_id, min_months, limit) ==
    /\ s_call = NoCall
    /\ s_call' = Call("no_sip_increase", now, agent_id, min_months, 0, 0, 0, limit)
    /\ s_out' = get_no_sip_increase_clients(sip_records, now, agent_id, min_months, limit)
    /\ UNCHANGED <<sip_records, now>>
    /\ UNCHANGED <<agent_vars, ins_vars, pf_vars, rest_vars>>

FailedSip(agent_id, min_failed_amount, limit) ==
    /\ s_call = NoCall
    /\ s_call' = Call("failed_sip", now, agent_id, 0, min_failed_amount, 0, 0, limit)
    /\ s_out' \in get_failed_sip_clients(sip_records, now, agent_id, min_failed_amount, limit)
    /\ UNCHANGED <<sip_records, now>>
    /\ UNCHANGED <<agent_vars, ins_vars, pf_vars, rest_vars>>

\* (A variant that writes to the rows it reports.)
HighValueInactiveMarking(agent_id, min_invested_amount, min_inactive_days, limit) ==
    /\ s_call = NoCall
    /\ s_call' = Call("high_value_inactive", now, agent_id, 0, 0, min_invested_amount,
                      min_inactive_days, limit)
    /\ s_out' \in get_high_value_inactive_clients(sip_records, now, agent_id,
                      min_invested_amount, min_inactive_days, limit)
    /\ sip_records' = [i \in 1..Len(sip_records) |->
           IF \E k \in 1..Len(s_out'.opps) : s_out'.opps[k].src = i
           THEN [sip_records[i] EXCEPT !.is_active = "false"] ELSE sip_records[i]]
    /\ UNCHANGED now
    /\ UNCHANGED <<agent_vars, ins_vars, pf_vars, rest_vars>>
HighValueInactive(agent_id, min_invested_amount, min_inactive_days, limit) ==
    /\ s_call = NoCall
    /\ s_call' = Call("high_value_inactive", now, agent_id, 0, 0, min_invested_amount,
                      min_inactive_days, limit)
    /\ s_out' \in get_high_value_inactive_clients(sip_records, now, agent_id,
                      min_invested_amount, min_inactive_days, limit)
    /\ UNCHANGED <<sip_records, now>>
    /\ UNCHANGED <<agent_vars, ins_vars, pf_vars, rest_vars>>

AllOpportunities(agent_id, limit) ==
    /\ s_call = NoCall
    /\ s_call' = Call("all_opportunities", now, agent_id, DefaultMinMonths,
                      DefaultMinFailedAmount, DefaultMinInvestedAmount,
                      DefaultMinInactiveDays, limit)
    /\ s_out' \in get_all_opportunities(sip_records, now, agent_id, limit)
    /\ UNCHANGED <<sip_records, now>>
    /\ UNCHANGED <<agent_vars, ins_vars, pf_vars, rest_vars>>

\* The result is serialized and discarded.
Respond ==
    /\ s_call # NoCall
    /\ s_call' = NoCall
    /\ s_out' = NoOut
    /\ UNCHANGED <<sip_records, now>>
    /\ UNCHANGED <<agent_vars, ins_vars, pf_vars, rest_vars>>

\* Time passes between requests.
Tick ==
    /\ s_call = NoCall
    /\ \E t \in ClockDays : t > now /\ now' = t
    /\ UNCHANGED <<sip_records, s_call, s_out>>
    /\ UNCHANGED <<agent_vars, ins_vars, pf_vars, rest_vars>>

NextSIP ==
    \/ \E a \in AgentFilters, m \in MinMonths, l \in Limits : NoSipIncrease(a, m, l)
    \/ \E a \in AgentFilters, f \in MinFailedAmounts, l \in Limits : FailedSip(a, f, l)
    \/ \E a \in AgentFilters, v \in MinInvestedAmounts, d \in MinInactiveDays, l \in Limits :
           HighValueInactive(a, v, d, l)
    \/ \E a \in AgentFilters, l \in CombinedLimits : AllOpportunities(a, l)
    \/ Respond
    \/ Tick

(***************************************************************************)
(* The insurance_records table.  A row carries the columns the rules read; *)
(* nulls names its numeric columns that hold NULL.                         *)
(***************************************************************************)
BasePolicy ==
    [user_id |-> "u1", agent_id |-> "a1", deleted |-> "false", nulls |-> {},
     insurance_type |-> "Health", premium |-> 20000, wealth_band |-> "1Cr-5Cr",
     baseline_expected_premium |-> 50000, premium_gap |-> 30000,
     opportunity_score |-> 80]

\* The rows that accompany a row of any kind in a table: the client's Health
\* policy, a Term policy of the same client with a lower score, and a policy of
\* another client with another advisor.
CompanionPolicies ==
    { BasePolicy,
      [BasePolicy EXCEPT !.insurance_type = "Term", !.premium = 10000,
                         !.opportunity_score = 70],
      [BasePolicy EXCEPT !.user_id = "u2", !.agent_id = "a2"] }
\* Rows that differ from BasePolicy in category, score, gap, or a NULL.
OtherPolicies ==
    { [BasePolicy EXCEPT !.insurance_type = "ULIP", !.premium = 5000,
                         !.opportunity_score = 90, !.premium_gap = 15000,
                         !.baseline_expected_premium = 20000, !.wealth_band = "5Cr+"],
      [BasePolicy EXCEPT !.insurance_type = "Traditional", !.premium_gap = 12000],
      [BasePolicy EXCEPT !.insurance_type = "Motor"],
      [BasePolicy EXCEPT !.insurance_type = None],
      [BasePolicy EXCEPT !.deleted = "true"],
      [BasePolicy EXCEPT !.premium_gap = 5000],
      [BasePolicy EXCEPT !.opportunity_score = 40],
      [BasePolicy EXCEPT !.nulls = {"premium"}, !.premium = 0],
      [BasePolicy EXCEPT !.nulls = {"baseline_expected_premium"},
                         !.baseline_expected_premium = 0],
      [BasePolicy EXCEPT !.wealth_band = None],
      [BasePolicy EXCEPT !.agent_id = "a2", !.opportunity_score = 95,
                         !.premium_gap = 40000] }
Policies == CompanionPolicies \cup OtherPolicies

\* The policy tables the coverage-gap rule is checked on: up to MaxPolicies
\* rows, of which at most one is not a companion row.
MaxPolicies == 3
PolicyTables ==
    UNION { { t \in [1..n -> Policies] :
                Cardinality({i \in 1..n : t[i] \notin CompanionPolicies}) <= 1 }
            : n \in 0..MaxPolicies }

\* The plans the no-coverage rule is checked on: they differ in client, advisor,
\* soft deletion and success_amount.
InvestedPlans ==
    { [BasePlan EXCEPT !.success_amount = 6000000],
      [BasePlan EXCEPT !.success_amount = 600000],
      [BasePlan EXCEPT !.success_amount = 500000, !.agent_id = "a2"],
      [BasePlan EXCEPT !.success_amount = 6000000, !.deleted = "true"],
      [BasePlan EXCEPT !.success_amount = 1000000, !.user_id = "u2", !.agent_id = "a2"],
      [BasePlan EXCEPT !.nulls = {"success_amount"}, !.success_amount = 0] }
InvestedTables == UNION { [1..n -> InvestedPlans] : n \in 0..MaxRecords }
\* The policy tables that go with them: they differ in client and soft deletion.
CoverPolicies ==
    { BasePolicy,
      [BasePolicy EXCEPT !.deleted = "true"],
      [BasePolicy EXCEPT !.user_id = "u2", !.agent_id = "a2"] }
CoverTables == UNION { [1..n -> CoverPolicies] : n \in 0..MaxRecords }

\* A snapshot is a policy table and a plan table.
Snapshots ==
    { <<t, <<>>>> : t \in PolicyTables } \cup (CoverTables \X InvestedTables)

\* A policy table with more records of one client than the coverage-gap rule
\* fetches for a limit of 2: four policies of one client, and a policy of
\* another client with a lower score.
CrowdedPolicyTables ==
    { <<BasePolicy, BasePolicy, BasePolicy, BasePolicy,
        [BasePolicy EXCEPT !.user_id = "u2", !.agent_id = "a2", !.opportunity_score = 70]>> }
CrowdedSnapshots == { <<t, <<>>>> : t \in CrowdedPolicyTables }

\* The arguments the insurance rules are invoked with.
MinPremiumGaps == {10000}
MinOpportunityScores == {0, 50}
MinMfValues == {600000, 1000000}

(***************************************************************************)
(* get_insurance_gap_opportunities                                         *)
(***************************************************************************)
RECURSIVE Sum(_)
\* sum of a list of integers
Sum(list) == IF list = <<>> THEN 0 ELSE Head(list) + Sum(Tail(list))

\* The query's filter; a comparison with NULL keeps no row.
GapFilter(r, agent_id, min_premium_gap, min_opportunity_score) ==
    /\ r.deleted = "false"
    /\ r.premium_gap >= min_premium_gap
    /\ r.opportunity_score >= min_opportunity_score
    /\ AgentMatches(r, agent_id)

\* record.insurance_type or 'Unknown'; record.wealth_band or "Unknown"
OrUnknown(text) == IF text \in {None, ""} THEN "Unknown" ELSE text
\* record.premium or 0, and likewise for the other numeric columns
NumberOrZero(r, column) == IF IsNull(r, column) THEN 0 ELSE r[column]

all_types == {"Health", "Term", "ULIP", "Traditional"}

\* client_insurance[user_id]['record']: the rows at which a client id is seen
\* for the first time, in the order of the fetched rows.
FirstUserRowKeepsLast(records, fetched) ==
    SelectSeq(fetched, LAMBDA i : \A k \in 1..Len(fetched) :
        (records[fetched[k]].user_id = records[i].user_id /\ fetched[k] # i) =>
            \E j \in 1..Len(fetched) : fetched[j] = i /\ k < j)
FirstUserRow(records, fetched) ==
    SelectSeq(fetched, LAMBDA i : \A k \in 1..Len(fetched) :
        (records[fetched[k]].user_id = records[i].user_id /\ fetched[k] # i) =>
            \E j \in 1..Len(fetched) : fetched[j] = i /\ j < k)

\* The opportunity of the client first seen at row i, accumulated over the
\* fetched rows of that client.
GapOpportunity(records, fetched, i) ==
    LET record == records[i]
        own == SelectSeq(fetched, LAMBDA k : records[k].user_id = record.user_id)
        insurance_types == {OrUnknown(records[own[k]].insurance_type) : k \in 1..Len(own)}
        total_premium == Sum([k \in 1..Len(own) |-> NumberOrZero(records[own[k]], "premium")])
    IN [src |-> i,
        user_id |-> record.user_id,
        agent_id |-> OrZero(record.agent_id),
        opportunity_type |-> "Insurance Coverage Gap",
        held |-> insurance_types,
        wealth_band |-> OrUnknown(record.wealth_band),
        mf_current_value |-> 0,
        total_premium |-> total_premium,
        baseline_expected_premium |-> RInt(NumberOrZero(record, "baseline_expected_premium")),
        premium_gap |-> RInt(NumberOrZero(record, "premium_gap")),
        opportunity_score |-> NumberOrZero(record, "opportunity_score"),
        missing_coverage_types |-> all_types \ insurance_types]

\* The results the call may give: one per order the database may return.
get_insurance_gap_opportunities(records, agent_id, min_premium_gap, min_opportunity_score, limit) ==
    LET rows == RowsWhere([i \in 1..Len(records) |->
                   GapFilter(records[i], agent_id, min_premium_gap, min_opportunity_score)])
    IN { LET fetched == Take(ordered, limit * 2)
             firsts == FirstUserRow(records, fetched)
             opportunities == [k \in 1..Len(firsts) |->
                                  GapOpportunity(records, fetched, firsts[k])]
             keys == [k \in 1..Len(firsts) |-> RInt(opportunities[k].opportunity_score)]
         IN Out("ok", Take(SortDesc(opportunities, keys), limit))
         : ordered \in OrderByDesc(rows, [i \in 1..Len(records) |->
                                            records[i].opportunity_score]) }

(***************************************************************************)
(* get_no_insurance_clients                                                *)
(***************************************************************************)
\* The rows of sip_query: not soft-deleted, of the advisor if one is given.
SipQueryRows(plans, agent_id) ==
    RowsWhere([i \in 1..Len(plans) |->
                  plans[i].deleted = "false" /\ AgentMatches(plans[i], agent_id)])

\* func.sum(SIPRecord.success_amount) of a client's rows: NULLs are skipped, and
\* the sum of no value is NULL.
total_invested(plans, rows, user_id) ==
    LET own == SelectSeq(rows, LAMBDA i : plans[i].user_id = user_id
                                          /\ ~IsNull(plans[i], "success_amount"))
    IN IF own = <<>> THEN NoneInt
       ELSE SomeInt(Sum([k \in 1..Len(own) |-> plans[own[k]].success_amount]))

\* group_by(user_id).having(sum >= min_mf_value): the clients kept.
sip_clients(plans, agent_id, min_mf_value) ==
    LET rows == SipQueryRows(plans, agent_id) IN
    { u \in {plans[rows[k]].user_id : k \in 1..Len(rows)} :
        LET total == total_invested(plans, rows, u)
        IN total.k = "int" /\ total.v >= min_mf_value }

\* The client ids of the policies that are not soft-deleted.
InsuredAlsoWhenDeleted(policies) == { policies[i].user_id : i \in 1..Len(policies) }
insured_clients(policies) ==
    { policies[i].user_id : i \in {k \in 1..Len(policies) : policies[k].deleted = "false"} }

\* min(100000, total_invested * 0.02)
ExpectedPremiumFifth(total) == RMin(RInt(100000), Rat(total * 2, 10))
expected_premium(total) == RMin(RInt(100000), Rat(total * 2, 100))

\* The opportunity of a client; sip_record is the row .first() returned.
NoInsuranceOpportunity(plans, sip_record, total) ==
    [src |-> sip_record,
     user_id |-> plans[sip_record].user_id,
     agent_id |-> OrZero(plans[sip_record].agent_id),
     opportunity_type |-> "No Insurance Coverage",
     held |-> {},
     wealth_band |-> IF total >= 5000000 THEN "5Cr+" ELSE "1Cr-5Cr",
     mf_current_value |-> total,
     total_premium |-> 0,
     baseline_expected_premium |-> expected_premium(total),
     premium_gap |-> expected_premium(total),
     opportunity_score |-> 100,
     missing_coverage_types |-> all_types]

\* The results the call may give: the database returns the groups in any order,
\* and .first() any of the client's rows that are not soft-deleted.
get_no_insurance_clients(plans, policies, agent_id, min_mf_value, limit) ==
    LET rows == SipQueryRows(plans, agent_id)
        clients == sip_clients(plans, agent_id, min_mf_value) \ insured_clients(policies)
        Firsts(u) == {i \in 1..Len(plans) : plans[i].user_id = u /\ plans[i].deleted = "false"}
        orders == { q \in [1..Cardinality(clients) -> 1..Len(plans)] :
                      /\ \A k \in DOMAIN q : plans[q[k]].user_id \in clients
                                             /\ q[k] \in Firsts(plans[q[k]].user_id)
                      /\ \A a, b \in DOMAIN q :
                             a < b => plans[q[a]].user_id # plans[q[b]].user_id }
    IN { LET opportunities == [k \in DOMAIN q |->
                 NoInsuranceOpportunity(plans, q[k],
                     total_invested(plans, rows, plans[q[k]].user_id).v)]
             keys == [k \in DOMAIN q |-> RInt(opportunities[k].mf_current_value)]
         IN Out("ok", Take(SortDesc(opportunities, keys), limit))
         : q \in orders }

(***************************************************************************)
(* The insurance detector as a state machine.                              *)
(***************************************************************************)
InsuranceCall(name, agent_id, min_premium_gap, min_opportunity_score, min_mf_value, limit) ==
    [name |-> name, agent_id |-> agent_id, min_premium_gap |-> min_premium_gap,
     min_opportunity_score |-> min_opportunity_score, min_mf_value |-> min_mf_value,
     limit |-> limit]
NoInsuranceCall == InsuranceCall("none", None, 0, 0, 0, 0)

\* Any snapshot, no request in progress, and nothing else running.
InitInsurance ==
    /\ \E snapshot \in Snapshots \cup CrowdedSnapshots :
           /\ insurance_records = snapshot[1]
           /\ sip_records = snapshot[2]
    /\ i_call = NoInsuranceCall
    /\ i_out = NoOut
    /\ now = 430
    /\ s_call = NoCall
    /\ s_out = NoOut
    /\ portfolio_holdings = <<>>
    /\ p_call = [name |-> "none", user_id |-> "<None>", min_current_value |-> 0,
                 max_rating |-> 0, min_concentration |-> 0, limit |-> 0]
    /\ p_out = [status |-> "none", opps |-> <<>>]
    /\ a_pc = "idle"
    /\ a_in = NoInput
    /\ a_resp = NoResponse
    /\ a_ret = JNull
    /\ a_exc = NoExc
    /\ users = <<>>
    /\ r_pc = [h \in {"h1", "h2"} |-> "idle"]
    /\ r_call = [h \in {"h1", "h2"} |->
                    [name |-> "none", clock |-> 0, agent_id |-> "<None>", limit |-> 0]]
    /\ r_acc = [h \in {"h1", "h2"} |-> <<>>]
    /\ r_out = [h \in {"h1", "h2"} |-> [status |-> "none", opps |-> <<>>]]

InsuranceGap(agent_id, min_premium_gap, min_opportunity_score, limit) ==
    /\ i_call = NoInsuranceCall
    /\ i_call' = InsuranceCall("insurance_gap", agent_id, min_premium_gap,
                               min_opportunity_score, 0, limit)
    /\ i_out' \in get_insurance_gap_opportunities(insurance_records, agent_id,
                      min_premium_gap, min_opportunity_score, limit)
    /\ UNCHANGED insurance_records
    /\ UNCHANGED <<agent_vars, sip_vars, pf_vars, rest_vars>>

NoInsurance(agent_id, min_mf_value, limit) ==
    /\ i_call = NoInsuranceCall
    /\ i_call' = InsuranceCall("no_insurance", agent_id, 0, 0, min_mf_value, limit)
    /\ i_out' \in get_no_insurance_clients(sip_records, insurance_records, agent_id,
                      min_mf_value, limit)
    /\ UNCHANGED insurance_records
    /\ UNCHANGED <<agent_vars, sip_vars, pf_vars, rest_vars>>

\* The result is serialized and discarded.
RespondInsurance ==
    /\ i_call # NoInsuranceCall
    /\ i_call' = NoInsuranceCall
    /\ i_out' = NoOut
    /\ UNCHANGED insurance_records
    /\ UNCHANGED <<agent_vars, sip_vars, pf_vars, rest_vars>>

NextInsurance ==
    \/ \E a \in AgentFilters, g \in MinPremiumGaps, o \in MinOpportunityScores, l \in Limits :
           InsuranceGap(a, g, o, l)
    \/ \E a \in AgentFilters, v \in MinMfValues, l \in Limits : NoInsurance(a, v, l)
    \/ RespondInsurance

(***************************************************************************)
(* The portfolio_holdings table.  A row carries the columns the rules      *)
(* read; nulls names its numeric columns that hold NULL.  A rating text is *)
(* NULL, the decimal text of a number, or text that float() rejects.       *)
(***************************************************************************)
RatingText(kind, number) == [kind |-> kind, number |-> number]
NoRating == RatingText("null", RInt(0))
NumericRating(number) == RatingText("number", number)
WordRating == RatingText("text", RInt(0))

BaseHolding ==
    [user_id |-> "u1", nulls |-> {}, current_value |-> 50000, portfolio_weight |-> 30,
     three_year_returns_alpha |-> -2, five_year_returns_alpha |-> 1,
     xirr_performance |-> 0, w_rating |-> NumericRating(Rat(5, 2))]

\* The rows that accompany a row of any kind in a table.
CompanionHoldings ==
    { BaseHolding,
      [BaseHolding EXCEPT !.current_value = 80000, !.portfolio_weight = 10,
                          !.three_year_returns_alpha = 3, !.w_rating = WordRating],
      [BaseHolding EXCEPT !.nulls = {"current_value"}, !.current_value = 0] }
\* Rows that differ in their performance metrics.
MetricHoldings ==
    { [BaseHolding EXCEPT !.three_year_returns_alpha = 0],
      [BaseHolding EXCEPT !.three_year_returns_alpha = 2, !.five_year_returns_alpha = -1],
      [BaseHolding EXCEPT !.three_year_returns_alpha = 2, !.xirr_performance = -4],
      [BaseHolding EXCEPT !.five_year_returns_alpha = -1, !.xirr_performance = -4],
      [BaseHolding EXCEPT !.nulls = {"three_year_returns_alpha"},
                          !.three_year_returns_alpha = 0],
      [BaseHolding EXCEPT !.nulls = {"three_year_returns_alpha", "five_year_returns_alpha"},
                          !.three_year_returns_alpha = 0, !.five_year_returns_alpha = 0,
                          !.xirr_performance = -4] }
\* Rows that differ in value, weight, rating or client.
OtherHoldings ==
    { [BaseHolding EXCEPT !.current_value = 20000, !.portfolio_weight = 40],
      [BaseHolding EXCEPT !.nulls = {"portfolio_weight"}, !.portfolio_weight = 0],
      [BaseHolding EXCEPT !.w_rating = NumericRating(RInt(3))],
      [BaseHolding EXCEPT !.w_rating = NumericRating(Rat(9, 2))],
      [BaseHolding EXCEPT !.w_rating = NoRating],
      [BaseHolding EXCEPT !.w_rating = WordRating],
      [BaseHolding EXCEPT !.user_id = "u2", !.current_value = 60000] }
Holdings == CompanionHoldings \cup MetricHoldings \cup OtherHoldings

\* The tables the checks start from: up to MaxRecords rows, of which at most one
\* is not a companion row.
HoldingTables ==
    UNION { { t \in [1..n -> Holdings] :
                Cardinality({i \in 1..n : t[i] \notin CompanionHoldings}) <= 1 }
            : n \in 0..MaxRecords }

\* The arguments the portfolio rules are invoked with.
UserFilters == {None, "u1"}
MinCurrentValues == {0, 30000}
MaxRatings == {3, 4}
MinConcentrations == {25, 30}

\* if user_id: query = query.filter(PortfolioHolding.user_id == user_id)
UserMatches(h, user_id) == user_id \in {None, ""} \/ h.user_id = user_id

\* PortfolioHolding.current_value >= min_current_value; NULL compares to nothing.
ValueAtLeast(h, min_current_value) ==
    ~IsNull(h, "current_value") /\ h.current_value >= min_current_value

\* PortfolioOpportunity(...): the fields copied from the holding, and the parts
\* of the description that are computed.  nones names the fields that are None.
PortfolioOpportunity(holdings, i, opportunity_type, issues) ==
    [src |-> i,
     nones |-> holdings[i].nulls,
     user_id |-> holdings[i].user_id,
     opportunity_type |-> opportunity_type,
     issues |-> issues,
     current_value |-> holdings[i].current_value,
     portfolio_weight |-> holdings[i].portfolio_weight,
     w_rating |-> holdings[i].w_rating]

(***************************************************************************)
(* get_underperforming_funds                                               *)
(***************************************************************************)
\* column < 0 in the query; NULL is not below 0.
NotAboveZero(h, column) == ~IsNull(h, column) /\ h[column] <= 0
BelowZero(h, column) == ~IsNull(h, column) /\ h[column] < 0

UnderperformingFilter(h, user_id, min_current_value) ==
    /\ \/ BelowZero(h, "three_year_returns_alpha")
       \/ BelowZero(h, "five_year_returns_alpha")
       \/ BelowZero(h, "xirr_performance")
    /\ ValueAtLeast(h, min_current_value)
    /\ UserMatches(h, user_id)

\* if holding.x and holding.x < 0: issues.append(...)
Issue(h, column) == ~IsNull(h, column) /\ h[column] # 0 /\ h[column] < 0
issues(h) ==
    SelectSeq(<<"three_year_returns_alpha", "five_year_returns_alpha", "xirr_performance">>,
              LAMBDA column : Issue(h, column))

\* The results the call may give: one per order the database may return.
get_underperforming_funds(holdings, user_id, min_current_value, limit) ==
    LET rows == RowsWhere([i \in 1..Len(holdings) |->
                   UnderperformingFilter(holdings[i], user_id, min_current_value)])
    IN { LET fetched == Take(ordered, limit)
         IN Out("ok", [k \in 1..Len(fetched) |->
                 PortfolioOpportunity(holdings, fetched[k], "Underperforming Fund",
                                      issues(holdings[fetched[k]]))])
         : ordered \in OrderByDesc(rows, [i \in 1..Len(holdings) |->
                                            holdings[i].current_value]) }

(***************************************************************************)
(* get_low_rated_funds                                                     *)
(***************************************************************************)
LowRatedFilter(h, user_id, min_current_value) ==
    /\ h.w_rating.kind # "null"
    /\ ValueAtLeast(h, min_current_value)
    /\ UserMatches(h, user_id)

\* try: rating = float(holding.w_rating); if rating < max_rating: ...
\* except (ValueError, TypeError): continue
IsRatedAtMost(h, max_rating) ==
    h.w_rating.kind = "number" /\ RLe(h.w_rating.number, RInt(max_rating))
IsLowRated(h, max_rating) ==
    h.w_rating.kind = "number" /\ RLt(h.w_rating.number, RInt(max_rating))

get_low_rated_funds(holdings, user_id, max_rating, min_current_value, limit) ==
    LET rows == RowsWhere([i \in 1..Len(holdings) |->
                   LowRatedFilter(holdings[i], user_id, min_current_value)])
        low_rated == SelectSeq(rows, LAMBDA i : IsLowRated(holdings[i], max_rating))
        keys == [k \in 1..Len(low_rated) |-> RInt(holdings[low_rated[k]].current_value)]
        kept == Take(SortDesc(low_rated, keys), limit)
    IN Out("ok", [k \in 1..Len(kept) |->
              PortfolioOpportunity(holdings, kept[k], "Low Rated Fund", <<>>)])

(***************************************************************************)
(* get_portfolio_rebalancing_opportunities                                 *)
(***************************************************************************)
ConcentrationFilterStrict(h, user_id, min_concentration) ==
    /\ ~IsNull(h, "portfolio_weight")
    /\ h.portfolio_weight > min_concentration
    /\ UserMatches(h, user_id)
ConcentrationFilter(h, user_id, min_concentration) ==
    /\ ~IsNull(h, "portfolio_weight")
    /\ h.portfolio_weight >= min_concentration
    /\ UserMatches(h, user_id)

\* The results the call may give: one per order the database may return.
get_portfolio_rebalancing_opportunities(holdings, user_id, min_concentration, limit) ==
    LET rows == RowsWhere([i \in 1..Len(holdings) |->
                   ConcentrationFilter(holdings[i], user_id, min_concentration)])
    IN { LET fetched == Take(ordered, limit)
         IN Out("ok", [k \in 1..Len(fetched) |->
                 PortfolioOpportunity(holdings, fetched[k], "Portfolio Concentration", <<>>)])
         : ordered \in OrderByDesc(rows, [i \in 1..Len(holdings) |->
                                            holdings[i].portfolio_weight]) }

(***************************************************************************)
(* get_all_portfolio_opportunities                                         *)
(***************************************************************************)
\* The thresholds the rules default to when the combined view invokes them.
DefaultMinCurrentValue == 0
DefaultMaxRating == 3
DefaultMinConcentration == 25

\* all_opps.sort(key=lambda x: x.current_value, reverse=True): comparing None
\* with a number, or with None, raises TypeError; a list of fewer than two
\* entries is sorted without a comparison.
SortRaises(all_opps) ==
    Len(all_opps) >= 2 /\ \E k \in 1..Len(all_opps) : "current_value" \in all_opps[k].nones

CombinePortfolio(underperforming, low_rated, concentrated, limit) ==
    LET all_opps == underperforming.opps \o low_rated.opps \o concentrated.opps
        keys == [k \in 1..Len(all_opps) |-> RInt(all_opps[k].current_value)]
    IN IF SortRaises(all_opps) THEN Out("raised", <<>>)
       ELSE Out("ok", Take(SortDesc(all_opps, keys), limit))

\* The results the call may give: one per pair of results of the two rules
\* whose query is ordered.
get_all_portfolio_opportunities(holdings, user_id, limit) ==
    LET each == SliceLimit(limit)
        low_rated == get_low_rated_funds(holdings, user_id, DefaultMaxRating,
                         DefaultMinCurrentValue, each)
    IN { CombinePortfolio(underperforming, low_rated, concentrated, limit) :
           underperforming \in get_underperforming_funds(holdings, user_id,
                                   DefaultMinCurrentValue, each),
           concentrated \in get_portfolio_rebalancing_opportunities(holdings, user_id,
                                   DefaultMinConcentration, each) }

(***************************************************************************)
(* The portfolio detector as a state machine.                              *)
(***************************************************************************)
PortfolioCall(name, user_id, min_current_value, max_rating, min_concentration, limit) ==
    [name |-> name, user_id |-> user_id, min_current_value |-> min_current_value,
     max_rating |-> max_rating, min_concentration |-> min_concentration, limit |-> limit]
NoPortfolioCall == PortfolioCall("none", None, 0, 0, 0, 0)

\* Any table, no request in progress, and nothing else running.
InitPortfolio ==
    /\ portfolio_holdings \in HoldingTables
    /\ p_call = NoPortfolioCall
    /\ p_out = NoOut
    /\ sip_records = <<>>
    /\ now = 430
    /\ s_call = NoCall
    /\ s_out = NoOut
    /\ insurance_records = <<>>
    /\ i_call = NoInsuranceCall
    /\ i_out = NoOut
    /\ a_pc = "idle"
    /\ a_in = NoInput
    /\ a_resp = NoResponse
    /\ a_ret = JNull
    /\ a_exc = NoExc
    /\ users = <<>>
    /\ r_pc = [h \in {"h1", "h2"} |-> "idle"]
    /\ r_call = [h \in {"h1", "h2"} |->
                    [name |-> "none", clock |-> 0, agent_id |-> "<None>", limit |-> 0]]
    /\ r_acc = [h \in {"h1", "h2"} |-> <<>>]
    /\ r_out = [h \in {"h1", "h2"} |-> [status |-> "none", opps |-> <<>>]]

UnderperformingFunds(user_id, min_current_value, limit) ==
    /\ p_call = NoPortfolioCall
    /\ p_call' = PortfolioCall("underperforming", user_id, min_current_value, 0, 0, limit)
    /\ p_out' \in get_underperforming_funds(portfolio_holdings, user_id,
                      min_current_value, limit)
    /\ UNCHANGED portfolio_holdings
    /\ UNCHANGED <<agent_vars, sip_vars, ins_vars, rest_vars>>

LowRatedFunds(user_id, max_rating, min_current_value, limit) ==
    /\ p_call = NoPortfolioCall
    /\ p_call' = PortfolioCall("low_rated", user_id, min_current_value, max_rating, 0, limit)
    /\ p_out' = get_low_rated_funds(portfolio_holdings, user_id, max_rating,
                    min_current_value, limit)
    /\ UNCHANGED portfolio_holdings
    /\ UNCHANGED <<agent_vars, sip_vars, ins_vars, rest_vars>>

Concentration(user_id, min_concentration, limit) ==
    /\ p_call = NoPortfolioCall
    /\ p_call' = PortfolioCall("concentration", user_id, 0, 0, min_concentration, limit)
    /\ p_out' \in get_portfolio_rebalancing_opportunities(portfolio_holdings, user_id,
                      min_concentration, limit)
    /\ UNCHANGED portfolio_holdings
    /\ UNCHANGED <<agent_vars, sip_vars, ins_vars, rest_vars>>

AllPortfolioOpportunities(user_id, limit) ==
    /\ p_call = NoPortfolioCall
    /\ p_call' = PortfolioCall("all_portfolio", user_id, DefaultMinCurrentValue,
                               DefaultMaxRating, DefaultMinConcentration, limit)
    /\ p_out' \in get_all_portfolio_opportunities(portfolio_holdings, user_id, limit)
    /\ UNCHANGED portfolio_holdings
    /\ UNCHANGED <<agent_vars, sip_vars, ins_vars, rest_vars>>

\* The result is serialized and discarded.
RespondPortfolio ==
    /\ p_call # NoPortfolioCall
    /\ p_call' = NoPortfolioCall
    /\ p_out' = NoOut
    /\ UNCHANGED portfolio_holdings
    /\ UNCHANGED <<agent_vars, sip_vars, ins_vars, rest_vars>>

NextPortfolio ==
    \/ \E u \in UserFilters, v \in MinCurrentValues, l \in Limits :
           UnderperformingFunds(u, v, l)
    \/ \E u \in UserFilters, r \in MaxRatings, v \in MinCurrentValues, l \in Limits :
           LowRatedFunds(u, r, v, l)
    \/ \E u \in UserFilters, c \in MinConcentrations, l \in Limits : Concentration(u, c, l)
    \/ \E u \in UserFilters, l \in CombinedLimits : AllPortfolioOpportunities(u, l)
    \/ RespondPortfolio

(***************************************************************************)
(* Specifications.  SpecAgent runs calls of analyze_opportunity, with no   *)
(* detector running; SpecSIP runs the SIP rules, SpecInsurance the         *)
(* insurance rules and SpecPortfolio the portfolio rules, with no          *)
(* synthesizer call in progress.                                           *)
(***************************************************************************)
SpecAgent ==
    /\ InitAgent
    /\ [][NextAgent]_vars

\* The steps analyze_opportunity takes by itself are always taken in the end.
\* The step that waits for the service (GenerateContent) is not among them: the
\* call passes no timeout or request options, so only the service ends the wait.
SpecAgentFair ==
    /\ InitAgent
    /\ [][NextAgent]_vars
    /\ WF_vars(ConstructModel)
    /\ WF_vars(BuildPrompt)
    /\ WF_vars(ParseResponse)
    /\ WF_vars(AgentReturn)

SpecSIP ==
    /\ InitSIP
    /\ [][NextSIP]_vars

SpecInsurance ==
    /\ InitInsurance
    /\ [][NextInsurance]_vars

SpecPortfolio ==
    /\ InitPortfolio
    /\ [][NextPortfolio]_vars

(***************************************************************************)
(* The whole engine over one repository: the four tables are populated,    *)
(* and the rules of the three detectors and the synthesizer are invoked in *)
(* any order, one request at a time.                                       *)
(***************************************************************************)
\* The users table: a row per client.
UserRows == <<[user_id |-> "u1", agent_external_id |-> "a1"],
              [user_id |-> "u2", agent_external_id |-> "a2"]>>

\* Repositories: a users table, plans, policies and holdings.
Repository(plans, policies, holdings) ==
    [users |-> UserRows, plans |-> plans, policies |-> policies, holdings |-> holdings]
Repositories ==
    { Repository(
          <<BasePlan,
            [BasePlan EXCEPT !.amount = 2000, !.success_amount = 200000, !.failed_amount = 9000],
            [BasePlan EXCEPT !.agent_id = "a2", !.user_id = "u2"],
            [BasePlan EXCEPT !.success_amount = 48000, !.failed_amount = 12000]>>,
          <<BasePolicy,
            [BasePolicy EXCEPT !.insurance_type = "Term", !.premium = 10000,
                               !.opportunity_score = 70],
            [BasePolicy EXCEPT !.user_id = "u2", !.agent_id = "a2", !.opportunity_score = 95,
                               !.premium_gap = 40000]>>,
          <<BaseHolding,
            [BaseHolding EXCEPT !.current_value = 80000, !.portfolio_weight = 10,
                                !.three_year_returns_alpha = 3, !.w_rating = WordRating],
            [BaseHolding EXCEPT !.current_value = 20000, !.portfolio_weight = 40],
            [BaseHolding EXCEPT !.user_id = "u2", !.current_value = 60000]>>),
      Repository(
          <<RecentPlan, RecentPlan, RecentPlan, BasePlan>>,
          <<BasePolicy, BasePolicy, BasePolicy, BasePolicy,
            [BasePolicy EXCEPT !.user_id = "u2", !.agent_id = "a2", !.opportunity_score = 70]>>,
          <<[BaseHolding EXCEPT !.nulls = {"current_value"}, !.current_value = 0],
            BaseHolding,
            [BaseHolding EXCEPT !.w_rating = NumericRating(RInt(3)), !.portfolio_weight = 25]>>),
      Repository(
          <<[BasePlan EXCEPT !.success_amount = 600000],
            [BasePlan EXCEPT !.success_amount = 500000, !.agent_id = "a2"],
            [BasePlan EXCEPT !.success_amount = 6000000, !.user_id = "u3"],
            [BasePlan EXCEPT !.nulls = {"amount"}, !.amount = 0, !.user_id = "u2",
                             !.success_amount = 1000000]>>,
          <<[BasePolicy EXCEPT !.deleted = "true"],
            [BasePolicy EXCEPT !.user_id = "u4"]>>,
          <<[BaseHolding EXCEPT !.five_year_returns_alpha = -1, !.xirr_performance = -4,
                                !.current_value = 70000],
            BaseHolding>>) }

\* Any repository, and nothing in progress.
InitEngine ==
    /\ \E repo \in Repositories :
           /\ users = repo.users
           /\ sip_records = repo.plans
           /\ insurance_records = repo.policies
           /\ portfolio_holdings = repo.holdings
    /\ now = 430
    /\ s_call = NoCall
    /\ s_out = NoOut
    /\ i_call = NoInsuranceCall
    /\ i_out = NoOut
    /\ p_call = NoPortfolioCall
    /\ p_out = NoOut
    /\ a_pc = "idle"
    /\ a_in = NoInput
    /\ a_resp = NoResponse
    /\ a_ret = JNull
    /\ a_exc = NoExc
    /\ r_pc = [h \in {"h1", "h2"} |-> "idle"]
    /\ r_call = [h \in {"h1", "h2"} |->
                    [name |-> "none", clock |-> 0, agent_id |-> "<None>", limit |-> 0]]
    /\ r_acc = [h \in {"h1", "h2"} |-> <<>>]
    /\ r_out = [h \in {"h1", "h2"} |-> [status |-> "none", opps |-> <<>>]]

\* No request is in progress.
Quiet ==
    /\ a_pc = "idle"
    /\ s_call = NoCall
    /\ i_call = NoInsuranceCall
    /\ p_call = NoPortfolioCall

\* A request starts when none is in progress, and runs to its response.
NextEngine ==
    \/ Quiet /\ NextSIP
    \/ Quiet /\ NextInsurance
    \/ Quiet /\ NextPortfolio
    \/ Quiet /\ \E cn \in ClientNames, ot \in OpportunityTypes, rd \in RawData :
                    analyze_opportunity(cn, ot, rd)
    \/ Respond
    \/ RespondInsurance
    \/ RespondPortfolio
    \/ ConstructModel
    \/ BuildPrompt
    \/ GenerateContent
    \/ ParseResponse
    \/ AgentReturn

SpecEngine ==
    /\ InitEngine
    /\ [][NextEngine]_vars


(***************************************************************************)
(* Concurrent requests.  Two request handlers run SIP rules and the        *)
(* combined view against the same table, their steps interleaved in any    *)
(* order: a single rule is a query and a loop over the rows it returned,   *)
(* the combined view three rule invocations, a sort and a cut.  The rules  *)
(* are invoked with their default thresholds.  An invocation lasts far     *)
(* less than a day and works with the clock value read when it starts.     *)
(***************************************************************************)
Handlers == {"h1", "h2"}
\* The plans of the table the handlers read: no two have the same failed_amount
\* or the same success_amount.
HandlerPlans ==
    { BasePlan,
      [BasePlan EXCEPT !.amount = 2000, !.success_amount = 200000, !.failed_amount = 9000],
      [BasePlan EXCEPT !.success_amount = 48000, !.failed_amount = 12000] }
HandlerTables ==
    { t \in [1..MaxRecords -> HandlerPlans] :
        \A a, b \in 1..MaxRecords : a # b => t[a] # t[b] }
HandlerRules == {"no_sip_increase", "failed_sip", "high_value_inactive"}
HandlerLimits == 1..MaxLimit
HandlerCall(name, clock, agent_id, limit) ==
    [name |-> name, clock |-> clock, agent_id |-> agent_id, limit |-> limit]
NoHandlerCall == HandlerCall("none", 0, None, 0)

\* all_opps = []: the list an invocation appends to is a local of that
\* invocation.
SharedList(h) == "h1"
LocalList(h) == h

\* The results a rule may give with its default thresholds.
RuleResults(name, records, clock, agent_id, limit) ==
    CASE name = "no_sip_increase" ->
           { get_no_sip_increase_clients(records, clock, agent_id, DefaultMinMonths, limit) }
      [] name = "failed_sip" ->
           get_failed_sip_clients(records, clock, agent_id, DefaultMinFailedAmount, limit)
      [] name = "high_value_inactive" ->
           get_high_value_inactive_clients(records, clock, agent_id,
               DefaultMinInvestedAmount, DefaultMinInactiveDays, limit)

\* Any table of distinct plans, and no request in progress.
InitConcurrent ==
    /\ sip_records \in HandlerTables
    /\ now = 430
    /\ r_pc = [h \in Handlers |-> "idle"]
    /\ r_call = [h \in Handlers |-> NoHandlerCall]
    /\ r_acc = [h \in Handlers |-> <<>>]
    /\ r_out = [h \in Handlers |-> NoOut]
    /\ users = <<>>
    /\ s_call = NoCall
    /\ s_out = NoOut
    /\ insurance_records = <<>>
    /\ i_call = NoInsuranceCall
    /\ i_out = NoOut
    /\ portfolio_holdings = <<>>
    /\ p_call = NoPortfolioCall
    /\ p_out = NoOut
    /\ a_pc = "idle"
    /\ a_in = NoInput
    /\ a_resp = NoResponse
    /\ a_ret = JNull
    /\ a_exc = NoExc

\* A handler receives a request: the route calls the rule or the combined view,
\* whose list starts empty.
Begin(h, name, agent_id, limit) ==
    /\ r_pc[h] = "idle"
    /\ r_pc' = [r_pc EXCEPT ![h] = IF name = "all_opportunities" THEN "no_increase"
                                   ELSE "rule"]
    /\ r_call' = [r_call EXCEPT ![h] = HandlerCall(name, now, agent_id, limit)]
    /\ r_acc' = [r_acc EXCEPT ![LocalList(h)] = <<>>]
    /\ r_out' = [r_out EXCEPT ![h] = NoOut]
    /\ UNCHANGED <<users, agent_vars, sip_vars, ins_vars, pf_vars>>

\* A single rule runs: its query, its loop, its sort and its cut.
RunRule(h) ==
    /\ r_pc[h] = "rule"
    /\ \E result \in RuleResults(r_call[h].name, sip_records, r_call[h].clock,
                                  r_call[h].agent_id, r_call[h].limit) :
           r_out' = [r_out EXCEPT ![h] = result]
    /\ r_pc' = [r_pc EXCEPT ![h] = "done"]
    /\ UNCHANGED <<r_call, r_acc>>
    /\ UNCHANGED <<users, agent_vars, sip_vars, ins_vars, pf_vars>>

\* all_opps.extend(rule(db, agent_id, limit=limit//3)): the list grows by the
\* rule's result; an exception of the rule ends the invocation.
Extend(h, result, next) ==
    IF result.status = "ok"
    THEN /\ r_acc' = [r_acc EXCEPT ![LocalList(h)] = @ \o result.opps]
         /\ r_pc' = [r_pc EXCEPT ![h] = next]
         /\ UNCHANGED r_out
    ELSE /\ r_out' = [r_out EXCEPT ![h] = Out("raised", <<>>)]
         /\ r_pc' = [r_pc EXCEPT ![h] = "done"]
         /\ UNCHANGED r_acc

ExtendNoIncrease(h) ==
    /\ r_pc[h] = "no_increase"
    /\ \E result \in RuleResults("no_sip_increase", sip_records, r_call[h].clock,
                                  r_call[h].agent_id, SliceLimit(r_call[h].limit)) :
           Extend(h, result, "failed")
    /\ UNCHANGED r_call
    /\ UNCHANGED <<users, agent_vars, sip_vars, ins_vars, pf_vars>>

ExtendFailed(h) ==
    /\ r_pc[h] = "failed"
    /\ \E result \in RuleResults("failed_sip", sip_records, r_call[h].clock,
                                  r_call[h].agent_id, SliceLimit(r_call[h].limit)) :
           Extend(h, result, "inactive")
    /\ UNCHANGED r_call
    /\ UNCHANGED <<users, agent_vars, sip_vars, ins_vars, pf_vars>>

ExtendInactive(h) ==
    /\ r_pc[h] = "inactive"
    /\ \E result \in RuleResults("high_value_inactive", sip_records, r_call[h].clock,
                                  r_call[h].agent_id, SliceLimit(r_call[h].limit)) :
           Extend(h, result, "sort")
    /\ UNCHANGED r_call
    /\ UNCHANGED <<users, agent_vars, sip_vars, ins_vars, pf_vars>>

\* all_opps.sort(key=..., reverse=True); return all_opps[:limit]
SortAndCut(h) ==
    /\ r_pc[h] = "sort"
    /\ LET all_opps == r_acc[LocalList(h)]
           keys == [k \in 1..Len(all_opps) |-> CombinedKey(all_opps[k])]
       IN r_out' = [r_out EXCEPT ![h] =
                       Out("ok", Take(SortDesc(all_opps, keys), r_call[h].limit))]
    /\ r_pc' = [r_pc EXCEPT ![h] = "done"]
    /\ UNCHANGED <<r_call, r_acc>>
    /\ UNCHANGED <<users, agent_vars, sip_vars, ins_vars, pf_vars>>

\* The response is sent and the invocation's locals are gone.
Finish(h) ==
    /\ r_pc[h] = "done"
    /\ r_pc' = [r_pc EXCEPT ![h] = "idle"]
    /\ r_call' = [r_call EXCEPT ![h] = NoHandlerCall]
    /\ r_acc' = [r_acc EXCEPT ![LocalList(h)] = <<>>]
    /\ r_out' = [r_out EXCEPT ![h] = NoOut]
    /\ UNCHANGED <<users, agent_vars, sip_vars, ins_vars, pf_vars>>

NextConcurrent ==
    \/ \E h \in Handlers, name \in HandlerRules, l \in HandlerLimits : Begin(h, name, None, l)
    \/ \E h \in Handlers, l \in HandlerLimits : Begin(h, "all_opportunities", None, 3 * l)
    \/ \E h \in Handlers : RunRule(h)
    \/ \E h \in Handlers : ExtendNoIncrease(h)
    \/ \E h \in Handlers : ExtendFailed(h)
    \/ \E h \in Handlers : ExtendInactive(h)
    \/ \E h \in Handlers : SortAndCut(h)
    \/ \E h \in Handlers : Finish(h)
    \/ Tick

SpecConcurrent ==
    /\ InitConcurrent
    /\ [][NextConcurrent]_vars

(***************************************************************************)
(* Properties of analyze_opportunity, checked under SpecAgent.             *)
(***************************************************************************)
SchemaFields ==
    {"client_id", "urgency_score", "opportunity_type", "headline", "talking_point",
     "suggested_action"}
SchemaTypes == {"SIP_RECOVERY", "PORTFOLIO_OPTIMIZATION", "PROTECTION_ENHANCEMENT"}
\* A document that conforms to the output schema.
Conforms(doc) ==
    /\ doc.kind = "object"
    /\ DOMAIN doc.obj = SchemaFields
    /\ doc.obj["urgency_score"].kind = "int"
    /\ doc.obj["opportunity_type"].kind = "str"
    /\ \E t \in SchemaTypes : doc.obj["opportunity_type"].s = <<t>>
    /\ \A f \in {"client_id", "headline", "talking_point", "suggested_action"} :
           doc.obj[f].kind = "str"
\* A document with the four fixed values of the fallback object and an
\* error_details string.
IsFallback(doc) ==
    /\ doc.kind = "object"
    /\ DOMAIN doc.obj = {"urgency_score", "headline", "talking_point", "suggested_action",
                         "error_details"}
    /\ doc.obj["urgency_score"] = JInt(0)
    /\ doc.obj["headline"] = JStr(<<"Manual", "Review", "Required">>)
    /\ doc.obj["talking_point"] =
           JStr(<<"Data", "analysis", "incomplete.", "Please", "review", "client", "file",
                  "manually.">>)
    /\ doc.obj["suggested_action"] = JStr(<<"Open", "Profile">>)
    /\ doc.obj["error_details"].kind = "str"
BannedWords == {"buy", "sell", "profit", "guaranteed", "target"}
\* A word in lower case, over the vocabulary of the service's answers.
Lower(w) ==
    CASE w = "Buy" -> "buy"
      [] w = "Sell" -> "sell"
      [] w = "Profit" -> "profit"
      [] w = "Guaranteed" -> "guaranteed"
      [] w = "Target" -> "target"
      [] OTHER -> w
HasBannedWord(words) == \E k \in 1..Len(words) : Lower(words[k]) \in BannedWords

\* C1: whenever anything inside analyze_opportunity raises (constructing the
\* model, building the prompt, the service call, reading or parsing the response
\* text), the call does not raise: it returns the fallback object, whose
\* urgency_score, headline, talking_point and suggested_action are the same fixed
\* values for every input and every error, plus an error_details string.
C1_FallbackOnEveryError ==
    /\ a_pc # "raised"
    /\ (a_pc = "returned" /\ a_exc # NoExc) => IsFallback(a_ret)
\* C1 witness: the service call itself timed out and the call returned.
C1_Witness ==
    /\ a_pc = "returned"
    /\ a_exc.cls = "DeadlineExceeded"
    /\ a_in.client_name = "Ravi"

\* C2 (as claimed): every value analyze_opportunity returns, on the success and on
\* the failure path, is an object with exactly the six schema fields, an integer
\* urgency_score and an opportunity_type of the closed set.
C2_ReturnsSchemaObject == a_pc = "returned" => Conforms(a_ret)

\* C3 (as claimed): when the service's text parses as JSON but the document does
\* not conform to the schema, the call does not return that document: it returns
\* the fallback object or a conforming one.
C3_RejectsNonConformingJson ==
    (a_pc = "returned" /\ a_resp.syntax = "json" /\ ~Conforms(a_resp.doc))
        => (a_ret # a_resp.doc /\ (IsFallback(a_ret) \/ Conforms(a_ret)))

\* C4 (as claimed): no banned word (buy, sell, profit, guaranteed, target) occurs in
\* the headline, talking_point or suggested_action of a returned object.
C4_NoBannedWordReturned ==
    (a_pc = "returned" /\ a_ret.kind = "object") =>
        \A f \in {"headline", "talking_point", "suggested_action"} \cap DOMAIN a_ret.obj :
            ~HasBannedWord(a_ret.obj[f].s)

\* C5 (as claimed): the urgency_score of every returned object is in 0..100.
C5_UrgencyScoreInRange ==
    (a_pc = "returned" /\ a_ret.kind = "object" /\ "urgency_score" \in DOMAIN a_ret.obj
       /\ a_ret.obj["urgency_score"].kind = "int")
        => a_ret.obj["urgency_score"].i \in 0..100

(***************************************************************************)
(* Properties of the SIP rules, checked under SpecSIP.  They are stated    *)
(* over the result of the invocation in progress: s_call holds its         *)
(* arguments and the clock value it read, s_out its result, and every      *)
(* opportunity names the row it was built from (src).                      *)
(***************************************************************************)
Returned(name) == s_call.name = name /\ s_out.status = "ok"
Opps == {s_out.opps[k] : k \in 1..Len(s_out.opps)}
\* The row matches the advisor filter of the invocation.
InScope(r) == s_call.agent_id = None \/ r.agent_id = s_call.agent_id
\* Row i has an opportunity in the result.
EmittedFor(i) == \E o \in Opps : o.src = i
\* The result was not cut: the limit is at least the number of rows.
NotTruncated == s_call.limit >= Len(sip_records)
\* Elapsed days and months (days integer-divided by 30) of a parseable date.
ElapsedDays(date) == s_call.clock - date.day
ElapsedMonths(date) == ElapsedDays(date) \div 30
Known(date) == date.kind = "naive"

\* C6 (as claimed): every opportunity a SIP rule emits has 0 <= risk_score <= 10
\* (all amounts in the table are non-negative; dates may lie in the future and
\* thresholds may be zero or negative).
C6_RiskScoreWithinZeroTen ==
    s_out.status = "ok" =>
        \A o \in Opps : RLe(RInt(0), o.risk_score) /\ RLe(o.risk_score, RInt(10))

\* The expected increments as the claim gives them, 0 when the start is unknown.
ClaimedIncrements(r) ==
    IF ~Known(r.start_date) THEN 0
    ELSE IF r.increment_period = "6M" /\ ElapsedMonths(r.start_date) >= 6
         THEN ElapsedMonths(r.start_date) \div 6
    ELSE IF r.increment_period = "1Y" /\ ElapsedMonths(r.start_date) >= 12
         THEN ElapsedMonths(r.start_date) \div 12
    ELSE 0
EligibleForNoIncrease(r) ==
    /\ r.is_active = "true"
    /\ r.current_sip_status = "Success"
    /\ r.deleted = "false"
    /\ Known(r.latest_success_order_date)
    /\ r.increment_percentage > 0
    /\ InScope(r)

\* C7 (as claimed): with min_months >= 0, an eligible plan yields an opportunity
\* (in a result that the limit did not cut) if and only if
\* months_since_last_success >= min_months and expected_increments > 0, also when
\* months_since_last_success is 0.
C7_NoIncreaseEmittedIff ==
    (Returned("no_sip_increase") /\ s_call.min_months >= 0 /\ NotTruncated) =>
        \A i \in 1..Len(sip_records) :
            EligibleForNoIncrease(sip_records[i]) =>
                (EmittedFor(i) <=>
                    /\ ElapsedMonths(sip_records[i].latest_success_order_date)
                           >= s_call.min_months
                    /\ ClaimedIncrements(sip_records[i]) > 0)

\* C8: every opportunity of the no-increase rule reports months as elapsed days
\* integer-divided by 30, expected_increments as months_since_start // 6 (period
\* 6M, at least 6 months) or // 12 (period 1Y, at least 12 months), comes from a
\* plan with one of these two periods, and has potential_increase =
\* amount * increment_percentage / 100 and risk_score = min(10, months / 6).
C8_NoIncreaseValues ==
    Returned("no_sip_increase") =>
        \A o \in Opps :
            LET r == sip_records[o.src]
                months == ElapsedMonths(r.latest_success_order_date)
            IN /\ Known(r.latest_success_order_date) /\ Known(r.start_date)
               /\ r.increment_period \in {"6M", "1Y"}
               /\ o.descr.months = months
               /\ o.descr.expected_increments = ClaimedIncrements(r)
               /\ o.descr.expected_increments > 0
               /\ o.potential_increase.n * 100
                      = r.amount * r.increment_percentage * o.potential_increase.d
               /\ o.risk_score = IF months >= 60 THEN RInt(10) ELSE Rat(months, 6)
\* C8 witness: the spec's example (amount 10000, 10%, 6M, 14 months since start,
\* 13 since the last success, min_months 12) gives 2 increments and 1000.
C8_Witness ==
    /\ Returned("no_sip_increase")
    /\ s_call.min_months = 12
    /\ \E o \in Opps :
           /\ sip_records[o.src].amount = 10000
           /\ sip_records[o.src].increment_percentage = 10
           /\ sip_records[o.src].increment_period = "6M"
           /\ ElapsedMonths(sip_records[o.src].start_date) = 14
           /\ o.descr.months = 13
           /\ o.descr.expected_increments = 2
           /\ o.potential_increase = RInt(1000)
           /\ o.risk_score = Rat(13, 6)

\* C9: every opportunity of the failed-transaction rule comes from a plan that is
\* not soft-deleted and has failed_amount >= min_failed_amount, and carries
\* failure_rate = failed / (success + failed) * 100 (0 when nothing was attempted),
\* potential_increase = failed_amount and risk_score = min(10, failure_rate / 10).
C9_FailedSipValues ==
    Returned("failed_sip") =>
        \A o \in Opps :
            LET r == sip_records[o.src]
                total == r.success_amount + r.failed_amount
                rate == o.descr.failure_rate
            IN /\ r.deleted = "false"
               /\ r.failed_amount >= s_call.min_failed_amount
               /\ IF total = 0 THEN rate = RInt(0)
                  ELSE rate.n * total = r.failed_amount * 100 * rate.d
               /\ o.potential_increase = RInt(r.failed_amount)
               /\ o.failed_amount = SomeInt(r.failed_amount)
               /\ IF RLe(RInt(100), rate) THEN o.risk_score = RInt(10)
                  ELSE o.risk_score.n * 10 * rate.d = rate.n * o.risk_score.d
\* C9 witness: the spec's example, success 4000 and failed 6000, gives a failure
\* rate of 60 and a risk score of 6.
C9_Witness ==
    /\ Returned("failed_sip")
    /\ \E o \in Opps :
           /\ sip_records[o.src].success_amount = 4000
           /\ sip_records[o.src].failed_amount = 6000
           /\ o.descr.failure_rate = RInt(60)
           /\ o.risk_score = RInt(6)

EligibleForInactive(r) ==
    /\ r.deleted = "false"
    /\ r.success_amount >= s_call.min_invested_amount
    /\ Known(r.latest_success_order_date)
    /\ InScope(r)

\* C10 (as claimed): with min_inactive_days >= 0, a plan that is not soft-deleted,
\* has success_amount >= min_invested_amount and a known latest-success date gets
\* an opportunity (in a result that the limit did not cut) if and only if
\* days_since_last_success >= min_inactive_days; each opportunity has
\* potential_increase = amount * 1.5 and risk_score = min(10, days / 30).
C10_InactiveEmittedIff ==
    (Returned("high_value_inactive") /\ s_call.min_inactive_days >= 0 /\ NotTruncated) =>
        /\ \A i \in 1..Len(sip_records) :
               EligibleForInactive(sip_records[i]) =>
                   (EmittedFor(i) <=>
                       ElapsedDays(sip_records[i].latest_success_order_date)
                           >= s_call.min_inactive_days)
        /\ \A o \in Opps :
               LET r == sip_records[o.src]
                   days == ElapsedDays(r.latest_success_order_date)
               IN /\ o.potential_increase.n * 2 = r.amount * 3 * o.potential_increase.d
                  /\ o.risk_score = IF days >= 300 THEN RInt(10) ELSE Rat(days, 30)

(***************************************************************************)
(* The SIP combined view.                                                  *)
(***************************************************************************)
\* How many times x occurs in the list.
Count(list, x) == Cardinality({k \in 1..Len(list) : list[k] = x})
\* The key the claim gives: risk_score + potential_increase / 10000.
ClaimedKey(o) ==
    LET share == Rat(o.potential_increase.n, o.potential_increase.d * 10000)
    IN Rat(o.risk_score.n * share.d + share.n * o.risk_score.d, o.risk_score.d * share.d)
\* result is the list all, reordered so that key is non-increasing, cut to limit:
\* it is in order, it has min(limit, len(all)) entries, each as often as all has
\* it at most, and nothing left out has a larger key than an entry kept.
\* resultKey[k] is the key of result[k], and allKey[j] the key of all[j].
IsSortedPrefixOf(result, resultKey, all, allKey, limit) ==
    /\ Len(result) = Min(limit, Len(all))
    /\ \A k \in 1..Len(result) : \E j \in 1..Len(all) :
           /\ all[j] = result[k]
           /\ Count(result, result[k]) <= Count(all, result[k])
    /\ \A a, b \in 1..Len(result) : a < b => RLe(resultKey[b], resultKey[a])
    /\ \A j \in 1..Len(all) : Count(result, all[j]) < Count(all, all[j]) =>
           \A k \in 1..Len(result) : RLe(allKey[j], resultKey[k])
\* The keys of a list of opportunities, as a list.
ClaimedKeys(opps) == SubSeq([k \in 1..Len(opps) |-> ClaimedKey(opps[k])], 1, Len(opps))
ValueKeys(opps) == SubSeq([k \in 1..Len(opps) |-> RInt(opps[k].current_value)], 1, Len(opps))

\* C11: when the three rules return, get_all_opportunities(limit) returns the
\* concatenation of their results for limit // 3 (default thresholds), reordered
\* so that risk_score + potential_increase / 10000 is non-increasing and cut to
\* limit entries: nothing is added, altered, or dropped other than by the cut.
C11_CombinedIsSortedConcatenation ==
    s_call.name = "all_opportunities" =>
        LET each == s_call.limit \div 3
            r1 == get_no_sip_increase_clients(sip_records, s_call.clock, s_call.agent_id,
                      12, each)
            R2 == get_failed_sip_clients(sip_records, s_call.clock, s_call.agent_id,
                      5000, each)
            R3 == get_high_value_inactive_clients(sip_records, s_call.clock,
                      s_call.agent_id, 100000, 60, each)
        IN \E r2 \in R2, r3 \in R3 :
               IF {r1.status, r2.status, r3.status} = {"ok"}
               THEN LET all == r1.opps \o r2.opps \o r3.opps
                    IN /\ s_out.status = "ok"
                       /\ IsSortedPrefixOf(s_out.opps, ClaimedKeys(s_out.opps),
                                           all, ClaimedKeys(all), s_call.limit)
               ELSE s_out.status = "raised"
\* C11 witness: a combined result with an opportunity of each rule, in an order
\* that is not the order of concatenation.
C11_Witness ==
    /\ Returned("all_opportunities")
    /\ {o.opportunity_type : o \in Opps}
           = {"No SIP Increase", "Failed SIP Transactions", "High-Value Inactive Client"}
    /\ s_out.opps[1].opportunity_type # "No SIP Increase"

(***************************************************************************)
(* Properties of the insurance rules, checked under SpecInsurance.  They   *)
(* are stated over the result of the invocation in progress: i_call holds  *)
(* its arguments and i_out its result.                                     *)
(***************************************************************************)
ReturnedInsurance(name) == i_call.name = name /\ i_out.status = "ok"
InsuranceOpps == {i_out.opps[k] : k \in 1..Len(i_out.opps)}
\* The policies of the client that match the filter of the invocation (and its
\* advisor filter, if one was given).
MatchingPolicies(user_id) ==
    { i \in 1..Len(insurance_records) :
        LET r == insurance_records[i] IN
        /\ r.user_id = user_id
        /\ r.deleted = "false"
        /\ r.premium_gap >= i_call.min_premium_gap
        /\ r.opportunity_score >= i_call.min_opportunity_score
        /\ (i_call.agent_id = None \/ r.agent_id = i_call.agent_id) }
\* A text or number of a record as an opportunity shows it: an absent text
\* reads "Unknown", an absent number 0.
ShownText(text) == IF text = None THEN "Unknown" ELSE text
ShownNumber(r, column) == IF column \in r.nulls THEN RInt(0) ELSE RInt(r[column])

\* C12: in every result of the coverage-gap rule no two opportunities have the
\* same client id, and each opportunity's premium_gap, opportunity_score, wealth
\* band and baseline premium are those of one record that has the maximum
\* opportunity_score among the client's matching records.
C12_OnePerClientFromTopRecord ==
    ReturnedInsurance("insurance_gap") =>
        /\ \A a, b \in 1..Len(i_out.opps) :
               a < b => i_out.opps[a].user_id # i_out.opps[b].user_id
        /\ \A o \in InsuranceOpps :
               \E i \in MatchingPolicies(o.user_id) :
                   LET r == insurance_records[i] IN
                   /\ \A j \in MatchingPolicies(o.user_id) :
                          insurance_records[j].opportunity_score <= r.opportunity_score
                   /\ o.premium_gap = RInt(r.premium_gap)
                   /\ o.opportunity_score = r.opportunity_score
                   /\ o.wealth_band = ShownText(r.wealth_band)
                   /\ o.baseline_expected_premium = ShownNumber(r, "baseline_expected_premium")
\* C12 witness: a client with matching records of different scores, the top one
\* not first in the table, gets one opportunity, carrying the top record's values.
C12_Witness ==
    /\ ReturnedInsurance("insurance_gap")
    /\ Len(i_out.opps) = 1
    /\ LET o == i_out.opps[1] IN
       /\ Cardinality(MatchingPolicies(o.user_id)) >= 2
       /\ o.src # 1
       /\ insurance_records[1].user_id = o.user_id
       /\ 1 \in MatchingPolicies(o.user_id)
       /\ o.opportunity_score = 90
       /\ insurance_records[1].opportunity_score = 80
       /\ o.wealth_band = "5Cr+"
       /\ o.premium_gap = RInt(15000)

\* C13 (as claimed): for every client in the result, missing_coverage_types is
\* {Health, Term, ULIP, Traditional} minus the categories of ALL the client's
\* matching records, and total_premium is the sum of premium over ALL of them,
\* whatever the number of records and the limit.
C13_AggregatesAllMatchingRecords ==
    ReturnedInsurance("insurance_gap") =>
        \A o \in InsuranceOpps :
            LET mine == MatchingPolicies(o.user_id)
                held == {insurance_records[i].insurance_type : i \in mine}
                paid == [i \in mine |->
                            IF "premium" \in insurance_records[i].nulls THEN 0
                            ELSE insurance_records[i].premium]
                total == Sum([k \in 1..Len(insurance_records) |->
                                 IF k \in mine THEN paid[k] ELSE 0])
            IN /\ o.missing_coverage_types = {"Health", "Term", "ULIP", "Traditional"} \ held
               /\ o.total_premium = total

\* The client's plans that the no-coverage rule adds up: not soft-deleted, and of
\* the advisor when the invocation names one.
CountedPlans(user_id) ==
    { i \in 1..Len(sip_records) :
        /\ sip_records[i].user_id = user_id
        /\ sip_records[i].deleted = "false"
        /\ (i_call.agent_id = None \/ sip_records[i].agent_id = i_call.agent_id) }
\* The sum of success_amount over those plans, an absent amount adding nothing.
CountedTotal(user_id) ==
    Sum([i \in 1..Len(sip_records) |->
            IF i \in CountedPlans(user_id) /\ "success_amount" \notin sip_records[i].nulls
            THEN sip_records[i].success_amount ELSE 0])
\* The client has a policy that is not soft-deleted.
HasLivePolicy(user_id) ==
    \E i \in 1..Len(insurance_records) :
        insurance_records[i].user_id = user_id /\ insurance_records[i].deleted = "false"

\* C14: no client emitted by the no-coverage rule has a policy that is not
\* soft-deleted; and in a result that the limit did not cut, a client with plans
\* is emitted if and only if the sum of success_amount over the client's plans
\* that are not soft-deleted is >= min_mf_value and the client has no policy that
\* is not soft-deleted (so soft-deleted policies do not exclude a client).
C14_NoCoverageEmittedIff ==
    ReturnedInsurance("no_insurance") =>
        /\ \A o \in InsuranceOpps : ~HasLivePolicy(o.user_id)
        /\ i_call.limit >= Len(sip_records) =>
               \A u \in {sip_records[i].user_id : i \in 1..Len(sip_records)} :
                   (\E o \in InsuranceOpps : o.user_id = u)
                       <=> /\ CountedTotal(u) >= i_call.min_mf_value
                           /\ ~HasLivePolicy(u)
\* C14 witness: a client whose total reaches the threshold only as the sum of two
\* plans, and whose only policy is soft-deleted, is emitted.
C14_Witness ==
    /\ ReturnedInsurance("no_insurance")
    /\ \E o \in InsuranceOpps :
           /\ Cardinality(CountedPlans(o.user_id)) = 2
           /\ \A i \in CountedPlans(o.user_id) :
                  sip_records[i].success_amount < i_call.min_mf_value
           /\ \E i \in 1..Len(insurance_records) :
                  /\ insurance_records[i].user_id = o.user_id
                  /\ insurance_records[i].deleted = "true"

\* C15: every opportunity of the no-coverage rule has opportunity_score 100,
\* baseline_expected_premium = premium_gap = min(100000, total_invested * 0.02),
\* total_premium 0, and wealth_band "5Cr+" when total_invested >= 5,000,000 and
\* "1Cr-5Cr" otherwise, total_invested being the sum the rule reports.
C15_NoCoverageValues ==
    ReturnedInsurance("no_insurance") =>
        \A o \in InsuranceOpps :
            LET total == CountedTotal(o.user_id) IN
            /\ o.mf_current_value = total
            /\ o.opportunity_score = 100
            /\ o.total_premium = 0
            /\ o.premium_gap = o.baseline_expected_premium
            /\ IF total * 2 >= 100000 * 100
               THEN o.premium_gap = RInt(100000)
               ELSE o.premium_gap.n * 100 = total * 2 * o.premium_gap.d
            /\ o.wealth_band = IF total >= 5000000 THEN "5Cr+" ELSE "1Cr-5Cr"
\* C15 witness: the spec's example, a total of 6,000,000 with min_mf_value
\* 1,000,000, gives band "5Cr+", expected premium 100000 and score 100.
C15_Witness ==
    /\ ReturnedInsurance("no_insurance")
    /\ i_call.min_mf_value = 1000000
    /\ \E o \in InsuranceOpps :
           /\ o.mf_current_value = 6000000
           /\ o.wealth_band = "5Cr+"
           /\ o.premium_gap = RInt(100000)
           /\ o.opportunity_score = 100

(***************************************************************************)
(* Properties of the portfolio rules, checked under SpecPortfolio.  They   *)
(* are stated over the result of the invocation in progress: p_call holds  *)
(* its arguments and p_out its result.                                     *)
(***************************************************************************)
ReturnedPortfolio(name) == p_call.name = name /\ p_out.status = "ok"
PortfolioOpps == {p_out.opps[k] : k \in 1..Len(p_out.opps)}
Metrics == {"three_year_returns_alpha", "five_year_returns_alpha", "xirr_performance"}
\* The metric is present in the holding and below zero.
IsNegative(h, metric) == metric \notin h.nulls /\ h[metric] < 0
\* The holding has a current value, and it is at least the invocation's minimum.
ValueQualifies(h) ==
    "current_value" \notin h.nulls /\ h.current_value >= p_call.min_current_value

\* C16: a holding is returned by the underperformance rule only if current_value
\* >= min_current_value and at least one of 3-year alpha, 5-year alpha and XIRR
\* performance is present and < 0; the description lists exactly the negative
\* metrics of the holding, each once, so it lists at least one.
C16_UnderperformanceListsNegativeMetrics ==
    ReturnedPortfolio("underperforming") =>
        \A o \in PortfolioOpps :
            LET h == portfolio_holdings[o.src] IN
            /\ ValueQualifies(h)
            /\ \E metric \in Metrics : IsNegative(h, metric)
            /\ {o.issues[k] : k \in 1..Len(o.issues)}
                   = {metric \in Metrics : IsNegative(h, metric)}
            /\ Len(o.issues) = Cardinality({metric \in Metrics : IsNegative(h, metric)})
            /\ o.issues # <<>>
\* C16 witness: a holding whose alphas are absent and whose XIRR performance is
\* negative is returned, and its description lists the XIRR performance only.
C16_Witness ==
    /\ ReturnedPortfolio("underperforming")
    /\ \E o \in PortfolioOpps :
           /\ "three_year_returns_alpha" \in portfolio_holdings[o.src].nulls
           /\ o.issues = <<"xirr_performance">>

\* The table without the holdings whose rating text is not a number.
NumericOnly(holdings) == SelectSeq(holdings, LAMBDA h : h.w_rating.kind # "text")
\* The holdings a result names, in its order.
HoldingsOf(holdings, out) == [k \in 1..Len(out.opps) |-> holdings[out.opps[k].src]]

\* C17: for every table the low-rating rule completes without error and returns a
\* holding only if its rating text is present and is a number < max_rating and
\* its current_value >= min_current_value; a holding whose rating is not a number
\* is never returned, and the result is the one the rule gives on the table
\* without such holdings.
C17_LowRatingSkipsNonNumeric ==
    p_call.name = "low_rated" =>
        /\ p_out.status = "ok"
        /\ \A o \in PortfolioOpps :
               LET h == portfolio_holdings[o.src] IN
               /\ h.w_rating.kind = "number"
               /\ RLt(h.w_rating.number, RInt(p_call.max_rating))
               /\ ValueQualifies(h)
        /\ HoldingsOf(portfolio_holdings, p_out)
               = HoldingsOf(NumericOnly(portfolio_holdings),
                     get_low_rated_funds(NumericOnly(portfolio_holdings), p_call.user_id,
                         p_call.max_rating, p_call.min_current_value, p_call.limit))
\* C17 witness: a table with a holding whose rating is not a number (and whose
\* value passes) before a low-rated holding; only the latter is returned.
C17_Witness ==
    /\ ReturnedPortfolio("low_rated")
    /\ Len(portfolio_holdings) = 2
    /\ portfolio_holdings[1].w_rating.kind = "text"
    /\ ValueQualifies(portfolio_holdings[1])
    /\ Len(p_out.opps) = 1
    /\ p_out.opps[1].src = 2

\* C18 (as claimed): get_all_portfolio_opportunities(limit) returns the
\* concatenation of the underperformance, low-rating and concentration results
\* for limit // 3 (default thresholds), ordered so that current_value is
\* non-increasing, cut to limit entries.
C18_PortfolioCombinedIsSortedConcatenation ==
    p_call.name = "all_portfolio" =>
        LET each == p_call.limit \div 3
            R1 == get_underperforming_funds(portfolio_holdings, p_call.user_id, 0, each)
            r2 == get_low_rated_funds(portfolio_holdings, p_call.user_id, 3, 0, each)
            R3 == get_portfolio_rebalancing_opportunities(portfolio_holdings,
                      p_call.user_id, 25, each)
        IN \E r1 \in R1, r3 \in R3 :
               LET all == r1.opps \o r2.opps \o r3.opps
               IN /\ p_out.status = "ok"
                  /\ IsSortedPrefixOf(p_out.opps, ValueKeys(p_out.opps),
                                      all, ValueKeys(all), p_call.limit)

(***************************************************************************)
(* Error handling of the SIP rules, checked under SpecSIP.                 *)
(***************************************************************************)
\* The dates stored in the table.
StoredDates ==
    UNION { {sip_records[i].latest_success_order_date, sip_records[i].start_date}
            : i \in 1..Len(sip_records) }
\* No plan of the table has a NULL in a numeric column.
NoNullAmounts == \A i \in 1..Len(sip_records) : sip_records[i].nulls = {}
\* No plan of the table has a timestamp with a UTC offset.
NoAwareDates == \A date \in StoredDates : date.kind # "aware"

\* C19 (as claimed): for every date string stored in a plan, get_days_since_date
\* and get_months_since_date return an integer or None and do not raise, so a SIP
\* rule or the combined view invoked on a table whose plans have all their
\* amounts returns a result.
C19_DatesNeverAbortScan ==
    s_call.name # "none" =>
        /\ \A date \in StoredDates :
               /\ get_days_since_date(date, s_call.clock).k \in {"int", "none"}
               /\ get_months_since_date(date, s_call.clock).k \in {"int", "none"}
        /\ NoNullAmounts => s_out.status = "ok"

\* C20 (as claimed): a plan that passes a rule's filter and has no amount, or no
\* success_amount, never fails the scan: every SIP rule and the combined view
\* invoked on a table whose dates have no UTC offset returns a result.
C20_AbsentAmountNeverAbortsScan ==
    (s_call.name # "none" /\ NoAwareDates) => s_out.status = "ok"

(***************************************************************************)
(* Termination of analyze_opportunity, checked under SpecAgentFair.        *)
(***************************************************************************)
\* C24 (as claimed): every call of analyze_opportunity eventually returns (a
\* parsed response or the fallback object), also when the generative service
\* never responds.
C24_EveryCallReturns == (a_pc = "construct") ~> (a_pc = "returned")

(***************************************************************************)
(* The concentration rule, checked under SpecPortfolio.                    *)
(***************************************************************************)
\* The holdings that qualify: a present weight of at least the invocation's
\* minimum, and the invocation's client when it names one.
Concentrated ==
    { i \in 1..Len(portfolio_holdings) :
        LET h == portfolio_holdings[i] IN
        /\ "portfolio_weight" \notin h.nulls
        /\ h.portfolio_weight >= p_call.min_concentration
        /\ (p_call.user_id = None \/ h.user_id = p_call.user_id) }

C29_AdvisorFilterRespected ==
    /\ (s_out.status = "ok" /\ s_call.agent_id # None) =>
           \A o \in Opps : o.agent_id = s_call.agent_id
    /\ (i_out.status = "ok" /\ i_call.agent_id # None) =>
           \A o \in InsuranceOpps : o.agent_id = i_call.agent_id

(***************************************************************************)
(* Completeness of the high-value-inactive rule, checked under SpecSIP.    *)
(***************************************************************************)
\* The plans that satisfy the rule of the invocation in progress.
QualifyingInactive ==
    { i \in 1..Len(sip_records) :
        LET r == sip_records[i] IN
        /\ r.deleted = "false"
        /\ "success_amount" \notin r.nulls
        /\ r.success_amount >= s_call.min_invested_amount
        /\ Known(r.latest_success_order_date)
        /\ ElapsedDays(r.latest_success_order_date) >= s_call.min_inactive_days
        /\ InScope(r) }

\* C26 (as claimed): for every table and every limit >= 1 the high-value-inactive
\* rule returns min(limit, q) opportunities, q being the number of plans of the
\* whole table that satisfy the rule, and they are qualifying plans with the
\* largest success_amount: plans active recently never crowd a qualifying plan
\* out of the result.
C26_InactiveReturnsAllQualifying ==
    (Returned("high_value_inactive") /\ s_call.limit >= 1) =>
        LET returned == {o.src : o \in Opps} IN
        /\ Len(s_out.opps) = Min(s_call.limit, Cardinality(QualifyingInactive))
        /\ Cardinality(returned) = Len(s_out.opps)
        /\ returned \subseteq QualifyingInactive
        /\ \A i \in QualifyingInactive \ returned, j \in returned :
               sip_records[i].success_amount <= sip_records[j].success_amount

(***************************************************************************)
(* Completeness of the coverage-gap rule, checked under SpecInsurance.     *)
(***************************************************************************)
\* The clients that have at least one record matching the invocation in progress.
MatchingClients ==
    { u \in {insurance_records[i].user_id : i \in 1..Len(insurance_records)} :
        MatchingPolicies(u) # {} }

\* C27 (as claimed): for every table and every limit >= 1 the coverage-gap rule
\* returns min(limit, c) opportunities, c being the number of distinct clients
\* with at least one matching record in the whole table, however many matching
\* records each client has.
C27_GapReturnsEveryClient ==
    (ReturnedInsurance("insurance_gap") /\ i_call.limit >= 1) =>
        Len(i_out.opps) = Min(i_call.limit, Cardinality(MatchingClients))

(***************************************************************************)
(* Properties of the whole engine, checked under SpecEngine.               *)
(***************************************************************************)
\* C22: no step of a detector rule, of a combined view or of a synthesizer call
\* changes a stored record: the users, plans, policies and holdings tables are
\* the same after every step, so after any sequence of invocations.
C22_StoredRecordsNeverChange ==
    [][/\ users' = users
       /\ sip_records' = sip_records
       /\ insurance_records' = insurance_records
       /\ portfolio_holdings' = portfolio_holdings]_vars
\* C22 witness: on a repository whose four tables hold rows, the high-value-
\* inactive rule has returned opportunities, and the plans it reports are still
\* marked active.
C22_Witness ==
    /\ Returned("high_value_inactive")
    /\ users # <<>> /\ insurance_records # <<>> /\ portfolio_holdings # <<>>
    /\ Len(s_out.opps) = 2
    /\ \A o \in Opps : sip_records[o.src].is_active = "true"

\* The list of numbers does not increase.
NonIncreasing(keys) == \A a, b \in 1..Len(keys) : a < b => RLe(keys[b], keys[a])
\* The result has at most limit entries, and key does not increase along it.
\* key[k] is the key of the k-th entry.
OrderedWithin(out, key, limit) == Len(out.opps) <= limit /\ NonIncreasing(key)

\* C25: for limit >= 1 every rule returns at most limit opportunities, in
\* non-increasing order of potential_increase (no-increase), failed_amount
\* (failed-transaction), success_amount (high-value-inactive), opportunity_score
\* (coverage-gap), total invested value (no-coverage), current_value
\* (underperformance, low-rating) and portfolio_weight (concentration).
C25_RuleResultsOrderedAndCut ==
    /\ (Returned("no_sip_increase") /\ s_call.limit >= 1) =>
           OrderedWithin(s_out, [k \in 1..Len(s_out.opps) |-> s_out.opps[k].potential_increase],
                         s_call.limit)
    /\ (Returned("failed_sip") /\ s_call.limit >= 1) =>
           OrderedWithin(s_out, [k \in 1..Len(s_out.opps) |->
                              RInt(sip_records[s_out.opps[k].src].failed_amount)],
                         s_call.limit)
    /\ (Returned("high_value_inactive") /\ s_call.limit >= 1) =>
           OrderedWithin(s_out, [k \in 1..Len(s_out.opps) |->
                              RInt(sip_records[s_out.opps[k].src].success_amount)],
                         s_call.limit)
    /\ (ReturnedInsurance("insurance_gap") /\ i_call.limit >= 1) =>
           OrderedWithin(i_out, [k \in 1..Len(i_out.opps) |->
                              RInt(i_out.opps[k].opportunity_score)],
                         i_call.limit)
    /\ (ReturnedInsurance("no_insurance") /\ i_call.limit >= 1) =>
           OrderedWithin(i_out, [k \in 1..Len(i_out.opps) |->
                              RInt(i_out.opps[k].mf_current_value)],
                         i_call.limit)
    /\ ((ReturnedPortfolio("underperforming") \/ ReturnedPortfolio("low_rated"))
            /\ p_call.limit >= 1) =>
           OrderedWithin(p_out, [k \in 1..Len(p_out.opps) |->
                              RInt(portfolio_holdings[p_out.opps[k].src].current_value)],
                         p_call.limit)
    /\ (ReturnedPortfolio("concentration") /\ p_call.limit >= 1) =>
           OrderedWithin(p_out, [k \in 1..Len(p_out.opps) |->
                              RInt(portfolio_holdings[p_out.opps[k].src].portfolio_weight)],
                         p_call.limit)
\* C25 witness: the failed-transaction rule, limit 2, on a table with four
\* qualifying plans: two are returned, the larger failed_amount first, and they
\* are not in the order of the table.
C25_Witness ==
    /\ Returned("failed_sip")
    /\ s_call.limit = 2
    /\ Len(sip_records) = 4
    /\ \A i \in 1..4 : sip_records[i].failed_amount >= s_call.min_failed_amount
    /\ Len(s_out.opps) = 2
    /\ s_out.opps[1].src > s_out.opps[2].src
    /\ s_out.opps[1].failed_amount.v > s_out.opps[2].failed_amount.v

\* No two entries of the list come from the same rule and the same row.
OncePerRule(opps) ==
    \A a, b \in 1..Len(opps) :
        (a < b /\ opps[a].opportunity_type = opps[b].opportunity_type) =>
            opps[a].src # opps[b].src

\* C30: get_all_opportunities(limit) and get_all_portfolio_opportunities(limit)
\* return at most 3 * (limit // 3) entries, so an empty list for limit 1 or 2, and
\* no plan or holding more than once per rule, so at most three times.
C30_CombinedViewSize ==
    /\ Returned("all_opportunities") =>
           /\ Len(s_out.opps) <= 3 * (s_call.limit \div 3)
           /\ s_call.limit \in {1, 2} => s_out.opps = <<>>
           /\ OncePerRule(s_out.opps)
           /\ \A i \in 1..Len(sip_records) : Cardinality({k \in 1..Len(s_out.opps) :
                                                   s_out.opps[k].src = i}) <= 3
    /\ ReturnedPortfolio("all_portfolio") =>
           /\ Len(p_out.opps) <= 3 * (p_call.limit \div 3)
           /\ p_call.limit \in {1, 2} => p_out.opps = <<>>
           /\ OncePerRule(p_out.opps)
           /\ \A i \in 1..Len(portfolio_holdings) :
                  Cardinality({k \in 1..Len(p_out.opps) : p_out.opps[k].src = i}) <= 3
\* C30 witness: the portfolio view with limit 2 returns nothing although a
\* holding qualifies for the concentration rule at its default threshold.
C30_Witness ==
    /\ ReturnedPortfolio("all_portfolio")
    /\ p_call.limit = 2
    /\ p_out.opps = <<>>
    /\ \E i \in 1..Len(portfolio_holdings) :
           /\ "portfolio_weight" \notin portfolio_holdings[i].nulls
           /\ portfolio_holdings[i].portfolio_weight >= 25

\* C21: two invocations of the same single rule with the same parameters, on a
\* table that did not change in between, return the same set of opportunities.
SameRequest(c, d) ==
    /\ c.name = d.name
    /\ c.agent_id = d.agent_id
    /\ c.limit = d.limit
OpportunitySet(out) == { out.opps[k] : k \in 1..Len(out.opps) }
C21_SameRequestSameOpportunities ==
    \A g, h \in Handlers :
        ( /\ r_pc[g] = "done"
          /\ r_pc[h] = "done"
          /\ r_call[g].name \in HandlerRules
          /\ SameRequest(r_call[g], r_call[h])
          /\ r_out[g].status = "ok"
          /\ r_out[h].status = "ok" )
        => OpportunitySet(r_out[g]) = OpportunitySet(r_out[h])

\* C23: an invocation that runs while another one runs returns a result it
\* may return when it runs alone on the same table at the same time.
Alone(call) ==
    IF call.name = "all_opportunities"
    THEN get_all_opportunities(sip_records, call.clock, call.agent_id, call.limit)
    ELSE RuleResults(call.name, sip_records, call.clock, call.agent_id, call.limit)
C23_ConcurrentInvocationsIndependent ==
    \A h \in Handlers : r_pc[h] = "done" => r_out[h] \in Alone(r_call[h])
\* One combined view has returned three opportunities while the other handler,
\* asked for another limit, holds its own list of collected opportunities.
C23_Witness ==
    /\ r_pc["h1"] = "done"
    /\ r_call["h1"].name = "all_opportunities"
    /\ Len(r_out["h1"].opps) = 3
    /\ r_pc["h2"] = "sort"
    /\ r_call["h2"].limit # r_call["h1"].limit
    /\ Len(r_acc["h2"]) > 3

====
